---- MODULE Spec2Model ----
(***************************************************************************)
(* Verification model of the telemetry SDK's instrumentation core:         *)
(*   telemetry/utils/trace_decision.py   should_trace                      *)
(*   telemetry/auto/class_instrumentor.py instrument_class and its wrapper *)
(*   telemetry/auto/decorators.py        _resolve_telemetry, trace,        *)
(*                                       _unified_trace_wrapper            *)
(*   telemetry/auto/database_instrumentor.py DatabaseInstrumentor          *)
(*   telemetry/core/traces.py            TracesManager.start_span          *)
(*   telemetry/auto/framework_instrumentor.py FrameworkInstrumentor        *)
(*                                                                         *)
(* Python objects and dicts are functions from attribute / key names to    *)
(* values; a missing attribute or key is a name outside the DOMAIN.        *)
(* Python strings that are matched by fnmatch are sequences of one-        *)
(* character strings.  Telemetry contexts are referred to by identity      *)
(* ("T1", "T2"; "null" is None) and their state is looked up in tele.      *)
(***************************************************************************)
EXTENDS Integers, Sequences, FiniteSets, TLC

VARIABLES
    tele,       \* context identity -> state of that TelemetryCollector
    cls,        \* the class: member name -> chain of callables (last is the attribute)
    fns,        \* the free function: chain of callables (last is the module-level name)
    last,       \* record of the most recent top-level call and what it did
    d_telemetry,\* should_trace input: the telemetry object
    d_ctx,      \* should_trace input: the call descriptor
    d_result,   \* should_trace outputs so far on that input, oldest first
    th,         \* thread -> position and result of its should_trace call
    registry,   \* contexts create_decorators was called with, latest last
    db_status,  \* DatabaseInstrumentor._status: library -> status
    db_calls,   \* library -> calls of its vendor instrumentor's instrument()
    db_last,    \* the most recent DatabaseInstrumentor operation
    tm,         \* the TracesManager: its tracer and the module's SpanKind
    use,        \* the current / most recent `with tm.start_span(...)` statement
    fi,         \* the FrameworkInstrumentor object: attribute -> value
    apps,       \* application -> request hooks registered on it
    req         \* the most recent inbound request and what the hooks did

vars == <<tele, cls, fns, last, d_telemetry, d_ctx, d_result, th, registry,
          db_status, db_calls, db_last, tm, use, fi, apps, req>>
wrapVars == <<tele, cls, fns, last>>
decisionVars == <<d_telemetry, d_ctx, d_result>>
dbVars == <<db_status, db_calls, db_last>>
spanVars == <<tm, use>>
frameworkVars == <<fi, apps, req>>

(***************************************************************************)
(* Python helpers                                                          *)
(***************************************************************************)
\* None as an object: it has no attributes, so getattr with a default
\* yields the default.
None == <<>>

\* dict.get(key, default) and getattr(obj, name, default)
DictGet(d, k, default) == IF k \in DOMAIN d THEN d[k] ELSE default

\* str -> sequence of characters, for the strings used below
S_api_users  == <<"/","a","p","i","/","u","s","e","r","s">>
S_api_health == <<"/","a","p","i","/","h","e","a","l","t","h">>
S_other      == <<"/","o","t","h","e","r">>
S_api_star   == <<"/","a","p","i","/","*">>
S_star       == <<"*">>
S_get_all    == <<"g","e","t","_","a","l","l">>
S_get_secret == <<"g","e","t","_","s","e","c","r","e","t">>
S_save       == <<"s","a","v","e">>
S_get_star   == <<"g","e","t","_","*">>
S_q_ave      == <<"?","a","v","e">>
S_Svc        == <<"S","v","c">>
S_GET        == <<"G","E","T">>
S_Svc_star   == <<"S","v","c","*">>

(***************************************************************************)
(* fnmatch.fnmatch(name, pat): shell-style match of the whole name;        *)
(* "*" matches any run of characters (also "/"), "?" exactly one.          *)
(***************************************************************************)
RECURSIVE fnmatch(_, _)
fnmatch(name, pat) ==
    IF pat = <<>> THEN name = <<>>
    ELSE IF Head(pat) = "*"
         THEN fnmatch(name, Tail(pat))
              \/ (name # <<>> /\ fnmatch(Tail(name), pat))
    ELSE IF Head(pat) = "?"
         THEN name # <<>> /\ fnmatch(Tail(name), Tail(pat))
    ELSE name # <<>> /\ Head(name) = Head(pat)
         /\ fnmatch(Tail(name), Tail(pat))

\* any(fnmatch.fnmatch(s, p) for p in patterns)
AnyMatch(s, patterns) ==
    \E i \in 1..Len(patterns) : fnmatch(s, patterns[i])

(***************************************************************************)
(* should_trace(telemetry, ctx)                                            *)
(***************************************************************************)
\* rule_decision failing closed: a layer without configured rules is not
\* traced
rule_decision_LayerDenied(telemetry, ctx) ==
    LET trace_rules == DictGet(telemetry, "trace_rules", <<>>)
        layer       == DictGet(ctx, "layer", "<None>")
        layer_rules == DictGet(trace_rules, layer, <<>>)
    IN  IF DOMAIN trace_rules = {} THEN TRUE
        ELSE IF DOMAIN layer_rules = {} THEN FALSE
        ELSE IF layer = "http" THEN
            LET route          == DictGet(ctx, "route", <<>>)
                include_routes == DictGet(layer_rules, "include_routes", <<>>)
                exclude_routes == DictGet(layer_rules, "exclude_routes", <<>>)
            IN  IF include_routes # <<>> /\ ~AnyMatch(route, include_routes)
                THEN FALSE
                ELSE IF AnyMatch(route, exclude_routes) THEN FALSE
                ELSE TRUE
        ELSE IF layer = "business" THEN
            LET method          == DictGet(ctx, "method", <<>>)
                include_methods == DictGet(layer_rules, "include_methods", <<>>)
                exclude_methods == DictGet(layer_rules, "exclude_methods", <<>>)
            IN  IF include_methods # <<>> /\ ~AnyMatch(method, include_methods)
                THEN FALSE
                ELSE IF AnyMatch(method, exclude_methods) THEN FALSE
                ELSE TRUE
        ELSE TRUE

\* rule_decision with the http include match returning at once: a route
\* that matches an include pattern is traced without looking at the excludes
rule_decision_HttpIncludeWins(telemetry, ctx) ==
    LET trace_rules == DictGet(telemetry, "trace_rules", <<>>)
        layer       == DictGet(ctx, "layer", "<None>")
        layer_rules == DictGet(trace_rules, layer, <<>>)
    IN  IF DOMAIN trace_rules = {} THEN TRUE
        ELSE IF DOMAIN layer_rules = {} THEN TRUE
        ELSE IF layer = "http" THEN
            LET route          == DictGet(ctx, "route", <<>>)
                include_routes == DictGet(layer_rules, "include_routes", <<>>)
                exclude_routes == DictGet(layer_rules, "exclude_routes", <<>>)
            IN  IF include_routes # <<>>
                THEN AnyMatch(route, include_routes)
                ELSE IF AnyMatch(route, exclude_routes) THEN FALSE
                ELSE TRUE
        ELSE IF layer = "business" THEN
            LET method          == DictGet(ctx, "method", <<>>)
                include_methods == DictGet(layer_rules, "include_methods", <<>>)
                exclude_methods == DictGet(layer_rules, "exclude_methods", <<>>)
            IN  IF include_methods # <<>> /\ ~AnyMatch(method, include_methods)
                THEN FALSE
                ELSE IF AnyMatch(method, exclude_methods) THEN FALSE
                ELSE TRUE
        ELSE TRUE

\* rule_decision with the business stages swapped in effect: a method that
\* matches an include pattern is traced without looking at the excludes
rule_decision_BusinessIncludeWins(telemetry, ctx) ==
    LET trace_rules == DictGet(telemetry, "trace_rules", <<>>)
        layer       == DictGet(ctx, "layer", "<None>")
        layer_rules == DictGet(trace_rules, layer, <<>>)
    IN  IF DOMAIN trace_rules = {} THEN TRUE
        ELSE IF DOMAIN layer_rules = {} THEN TRUE
        ELSE IF layer = "http" THEN
            LET route          == DictGet(ctx, "route", <<>>)
                include_routes == DictGet(layer_rules, "include_routes", <<>>)
                exclude_routes == DictGet(layer_rules, "exclude_routes", <<>>)
            IN  IF include_routes # <<>> /\ ~AnyMatch(route, include_routes)
                THEN FALSE
                ELSE IF AnyMatch(route, exclude_routes) THEN FALSE
                ELSE TRUE
        ELSE IF layer = "business" THEN
            LET method          == DictGet(ctx, "method", <<>>)
                include_methods == DictGet(layer_rules, "include_methods", <<>>)
                exclude_methods == DictGet(layer_rules, "exclude_methods", <<>>)
            IN  IF include_methods # <<>>
                THEN AnyMatch(method, include_methods)
                ELSE IF AnyMatch(method, exclude_methods) THEN FALSE
                ELSE TRUE
        ELSE TRUE

\* lines 32-83 of should_trace: the decision once the master switch is on
rule_decision(telemetry, ctx) ==
    LET \* None and {} are both falsy: both are the empty mapping here
        trace_rules == DictGet(telemetry, "trace_rules", <<>>)
        \* ctx.get("layer") is None when the key is missing; no rule set
        \* is keyed by None
        layer       == DictGet(ctx, "layer", "<None>")
        layer_rules == DictGet(trace_rules, layer, <<>>)
    IN  IF DOMAIN trace_rules = {} THEN TRUE
        ELSE IF DOMAIN layer_rules = {} THEN TRUE
        ELSE IF layer = "http" THEN
            LET route          == DictGet(ctx, "route", <<>>)
                include_routes == DictGet(layer_rules, "include_routes", <<>>)
                exclude_routes == DictGet(layer_rules, "exclude_routes", <<>>)
            IN  IF include_routes # <<>> /\ ~AnyMatch(route, include_routes)
                THEN FALSE
                ELSE IF AnyMatch(route, exclude_routes) THEN FALSE
                ELSE TRUE
        ELSE IF layer = "business" THEN
            LET method          == DictGet(ctx, "method", <<>>)
                include_methods == DictGet(layer_rules, "include_methods", <<>>)
                exclude_methods == DictGet(layer_rules, "exclude_methods", <<>>)
            IN  IF include_methods # <<>> /\ ~AnyMatch(method, include_methods)
                THEN FALSE
                ELSE IF AnyMatch(method, exclude_methods) THEN FALSE
                ELSE TRUE
        ELSE TRUE

\* should_trace with the flag's default flipped: getattr(telemetry,
\* "enable_traces", True), so a missing flag or a None context is traced
should_trace_DefaultOn(telemetry, ctx) ==
    IF ~DictGet(telemetry, "enable_traces", TRUE) THEN FALSE
    ELSE rule_decision(telemetry, ctx)

should_trace(telemetry, ctx) ==
    IF ~DictGet(telemetry, "enable_traces", FALSE) THEN FALSE
    ELSE rule_decision(telemetry, ctx)

(***************************************************************************)
(* Bounds and the sample application                                       *)
(***************************************************************************)
\* wrapping operations (instrument_class applications plus decorators
\* applied to the free function) in one run
MaxWraps == 2

Contexts == {"T1", "T2"}

\* names as character sequences: instrument_class tests name.startswith("_")
N_init == <<"_","_","i","n","i","t","_","_">>
N_p   == <<"_","p">>
N_bar == <<"b","a","r">>
N_foo == <<"f","o","o">>
N_f   == <<"f">>

\* inspect.getmembers(cls, inspect.isfunction) of the sample class, which
\* getmembers returns sorted by name ("_" sorts before the lowercase letters)
MemberOrder == <<N_init, N_p, N_bar, N_foo>>
Members == {MemberOrder[i] : i \in 1..Len(MemberOrder)}

class_name == S_Svc

\* the arguments of a call: the _telemetry slot of the first positional
\* argument ("absent": no argument, None, or an object without the slot)
\* and the payload the original acts on
Args == [first : {"absent", "null", "T1"}, x : {"v", "bad"}]

Ret(v)   == [kind |-> "ret", val |-> v]
Raise(e) == [kind |-> "raise", err |-> e]

\* the unwrapped application callable named `name`: returns a value that
\* identifies the callable and its arguments, or raises its own error
orig(name, args) ==
    IF args.x = "bad"
    THEN Raise([type |-> "ValueError", origin |-> "app", fn |-> name, args |-> args])
    ELSE Ret([fn |-> name, args |-> args])

\* an error raised inside the instrumentation layer
TelErr(type, what) ==
    [type |-> type, origin |-> "telemetry", fn |-> <<what>>, args |-> <<>>]

(***************************************************************************)
(* The collaborators: tracer, metrics sink, log sink.  A call on a sink    *)
(* leaves an event; ok = FALSE when that call raised.                      *)
(***************************************************************************)
Ev(op, t, name, tag, ok) ==
    [op |-> op, ctx |-> t, name |-> name, tag |-> tag, ok |-> ok]

\* tele.traces is None or missing
NoTraces(t) == DictGet(tele[t], "traces", "None") = "None"

\* span.set_attribute(k, v) for each k of keys, up to the first that raises
RECURSIVE set_attributes(_, _, _)
set_attributes(t, keys, failing) ==
    IF keys = <<>> THEN [ev |-> <<>>, raised |-> FALSE]
    ELSE IF failing
         THEN [ev |-> <<Ev("set_attribute", t, <<Head(keys)>>, "-", FALSE)>>,
               raised |-> TRUE]
    ELSE LET rest == set_attributes(t, Tail(keys), failing)
         IN  [ev |-> <<Ev("set_attribute", t, <<Head(keys)>>, "-", TRUE)>> \o rest.ev,
              raised |-> rest.raised]

\* span.record_exception(e); span.set_status(StatusCode.ERROR)
record_error(t, e) ==
    IF tele[t].tracer = "record_raises"
    THEN [ev |-> <<Ev("record_exception", t, <<e.type>>, "error", FALSE)>>,
          raised |-> TRUE]
    ELSE [ev |-> <<Ev("record_exception", t, <<e.type>>, "error", TRUE),
                   Ev("set_status", t, <<"ERROR">>, "error", TRUE)>>,
          raised |-> FALSE]

\* tele.metrics.increment_counter(...); tele.metrics.record_histogram(...)
emit_metrics(t, counter_name, histogram_name, outcome) ==
    \* tele has no attribute metrics: AttributeError before any sink call
    IF tele[t].metrics = "missing" THEN [ev |-> <<>>, raised |-> TRUE]
    ELSE IF tele[t].metrics = "counter_raises"
    THEN [ev |-> <<Ev("counter", t, counter_name, outcome, FALSE)>>,
          raised |-> TRUE]
    ELSE IF tele[t].metrics = "histogram_raises"
    THEN [ev |-> <<Ev("counter", t, counter_name, outcome, TRUE),
                   Ev("histogram", t, histogram_name, outcome, FALSE)>>,
          raised |-> TRUE]
    ELSE [ev |-> <<Ev("counter", t, counter_name, outcome, TRUE),
                   Ev("histogram", t, histogram_name, outcome, TRUE)>>,
          raised |-> FALSE]

\* tele.logs.info(...) / tele.logs.error(...)
emit_log(t, level, message, outcome) ==
    \* tele has no attribute logs: AttributeError before any sink call
    IF tele[t].logs = "missing" THEN [ev |-> <<>>, raised |-> TRUE]
    ELSE [ev |-> <<Ev(level, t, message, outcome, tele[t].logs # "raises")>>,
          raised |-> tele[t].logs = "raises"]

\* tele.metrics.increment_counter(name, 1, attributes)
increment_counter(t, name) ==
    IF tele[t].metrics = "missing" THEN [ev |-> <<>>, raised |-> TRUE]
    ELSE [ev |-> <<Ev("counter", t, name, "-",
                      tele[t].metrics # "counter_raises")>>,
          raised |-> tele[t].metrics = "counter_raises"]

\* a span ended by hand after the block: an exception skips the end
span_exit_LeakOnError(t, span_name, exc) ==
    IF exc THEN <<>> ELSE <<Ev("span_end", t, span_name, "-", TRUE)>>

\* leaving `with tracer.start_as_current_span(span_name)`: the context
\* manager ends the span, whether the block returned or raised (exc)
span_exit(t, span_name, exc) == <<Ev("span_end", t, span_name, "-", TRUE)>>

\* try: <block> except Exception: logger.debug(...)   -- the failure stays
\* inside; without the try the block's exception leaves it
try_except_Unguarded(block) == block

try_except(block) == [ev |-> block.ev, raised |-> FALSE]

(***************************************************************************)
(* Callables.  A chain is the sequence base function, wrapper around it,   *)
(* wrapper around that, ...; chain[i-1] is what wrapper chain[i] closed    *)
(* over (orig_fn / fn, also its __wrapped__).  Every callable has a        *)
(* _telemetry slot `tel`: "absent", "null" (None) or a context.            *)
(***************************************************************************)
BaseFn(name) == [kind |-> "orig", name |-> name, tel |-> "absent"]

\* the application calls the attribute, i.e. the outermost callable
Last(chain) == chain[Len(chain)]

ClassAttrKeys == <<"code.function", "code.class", "code.module",
                   "telemetry.kind", "telemetry.sdk">>
DecoratorAttrKeys == <<"code.function", "code.module",
                       "telemetry.kind", "telemetry.sdk">>

NoBlock == [ev |-> <<>>, raised |-> FALSE]

(***************************************************************************)
(* _resolve_telemetry(self_or_fn, fn); fn is chain[j], self_or_fn is the   *)
(* first positional argument, whose slot is `first`                        *)
(***************************************************************************)
resolve_telemetry(first, chain, j) ==
    IF first # "absent" THEN Ret(first)
    ELSE IF chain[j].tel # "absent" THEN Ret(chain[j].tel)
    ELSE IF chain[j].kind # "orig" /\ chain[j-1].tel # "absent"
         \* getattr(fn.__wrapped__._telemetry): getattr with one argument
         THEN Raise(TelErr("TypeError", "getattr"))
    ELSE Ret("null")

(***************************************************************************)
(* class_instrumentor.py: the except clause of wrapper                     *)
(***************************************************************************)
class_handler(t, w, e, span_set) ==
    LET rec == try_except(IF span_set THEN record_error(t, e) ELSE NoBlock)
        m   == try_except(emit_metrics(t, w.counter_name, w.histogram_name, "error"))
        l   == try_except(emit_log(t, "log_error", w.qualified_name, "error"))
    IN  IF rec.raised
        THEN [out |-> Raise(TelErr("RuntimeError", "record_exception")),
              ev |-> rec.ev]
        ELSE IF m.raised
        THEN [out |-> Raise(TelErr("RuntimeError", "metrics")),
              ev |-> rec.ev \o m.ev]
        ELSE IF l.raised
        THEN [out |-> Raise(TelErr("RuntimeError", "logs")),
              ev |-> rec.ev \o m.ev \o l.ev]
        ELSE [out |-> Raise(e), ev |-> rec.ev \o m.ev \o l.ev]

(***************************************************************************)
(* decorators.py: the except clause of _unified_trace_wrapper              *)
(***************************************************************************)
unified_handler(t, span_name, e, span_set) ==
    LET rec == IF span_set THEN record_error(t, e) ELSE NoBlock
        m   == emit_metrics(t, span_name \o <<".calls">>,
                            span_name \o <<".duration_ms">>, "error")
        l   == emit_log(t, "log_error", span_name, "error")
    IN  IF rec.raised
        THEN [out |-> Raise(TelErr("RuntimeError", "record_exception")),
              ev |-> rec.ev]
        ELSE IF m.raised
        THEN [out |-> Raise(TelErr("RuntimeError", "metrics")),
              ev |-> rec.ev \o m.ev]
        ELSE IF l.raised
        THEN [out |-> Raise(TelErr("RuntimeError", "logs")),
              ev |-> rec.ev \o m.ev \o l.ev]
        ELSE [out |-> Raise(e), ev |-> rec.ev \o m.ev \o l.ev]

RECURSIVE Call(_, _, _)
RECURSIVE wrapper(_, _, _)
RECURSIVE unified_trace_wrapper(_, _, _, _, _)
RECURSIVE trace_wrapper(_, _, _)
RECURSIVE counter_wrapper(_, _, _)
RECURSIVE counter_wrapper_AfterBody(_, _, _)
RECURSIVE log_wrapper(_, _, _)

(***************************************************************************)
(* class_instrumentor.py: wrapper(args, kwargs) of make_wrapper         *)
(***************************************************************************)
wrapper(chain, i, args) ==
    LET w       == chain[i]
        orig_fn == chain[i-1]
        \* getattr(orig_fn, "_telemetry", telemetry)
        t       == IF orig_fn.tel = "absent" THEN w.telemetry ELSE orig_fn.tel
    IN  IF t = "null" \/ NoTraces(t) THEN Call(chain, i-1, args)
        ELSE
        LET tracer == tele[t].tracer
            start  == <<Ev("span_start", t, w.span_name, "-", TRUE)>>
            end     == span_exit(t, w.span_name, FALSE)
            end_exc == span_exit(t, w.span_name, TRUE)
            attrs  == set_attributes(t, ClassAttrKeys, tracer = "attr_raises")
            inner  == Call(chain, i-1, args)
            dur    == set_attributes(t, <<"duration_ms">>,
                                     tracer \in {"attr_raises", "late_attr_raises"})
            m      == try_except(emit_metrics(t, w.counter_name,
                                              w.histogram_name, "success"))
            l      == try_except(emit_log(t, "log_info", w.qualified_name,
                                          "success"))
            Fail(pre, e, span_set) ==
                LET h == class_handler(t, w, e, span_set)
                IN  [out |-> h.out, ev |-> pre \o h.ev]
        IN  IF tracer = "None"
            THEN Fail(<<>>, TelErr("AttributeError", "start_as_current_span"), FALSE)
            ELSE IF tracer = "start_raises"
            THEN Fail(<<Ev("span_start", t, w.span_name, "-", FALSE)>>,
                      TelErr("RuntimeError", "start_as_current_span"), FALSE)
            ELSE IF attrs.raised
            THEN Fail(start \o attrs.ev \o end_exc,
                      TelErr("RuntimeError", "set_attribute"), TRUE)
            ELSE IF inner.out.kind = "raise"
            THEN Fail(start \o attrs.ev \o inner.ev \o end_exc, inner.out.err, TRUE)
            ELSE IF dur.raised
            THEN Fail(start \o attrs.ev \o inner.ev \o dur.ev \o end_exc,
                      TelErr("RuntimeError", "set_attribute"), TRUE)
            ELSE IF m.raised
            THEN Fail(start \o attrs.ev \o inner.ev \o dur.ev \o m.ev \o end_exc,
                      TelErr("RuntimeError", "metrics"), TRUE)
            ELSE IF l.raised
            THEN Fail(start \o attrs.ev \o inner.ev \o dur.ev \o m.ev \o l.ev \o end_exc,
                      TelErr("RuntimeError", "logs"), TRUE)
            ELSE [out |-> inner.out,
                  ev  |-> start \o attrs.ev \o inner.ev \o dur.ev \o m.ev
                          \o l.ev \o end]

(***************************************************************************)
(* decorators.py: _unified_trace_wrapper(fn, tele, span_name, base_attrs); *)
(* fn is the thunk lambda: fn(args, kwargs) over chain[i-1]             *)
(***************************************************************************)
unified_trace_wrapper(chain, i, args, t, span_name) ==
    LET tracer == tele[t].tracer
        counter_name   == span_name \o <<".calls">>
        histogram_name == span_name \o <<".duration_ms">>
        start  == <<Ev("span_start", t, span_name, "-", TRUE)>>
        end     == span_exit(t, span_name, FALSE)
        end_exc == span_exit(t, span_name, TRUE)
        attrs  == set_attributes(t, DecoratorAttrKeys, tracer = "attr_raises")
        inner  == Call(chain, i-1, args)
        dur    == set_attributes(t, <<"duration_ms">>,
                                 tracer \in {"attr_raises", "late_attr_raises"})
        m      == emit_metrics(t, counter_name, histogram_name, "success")
        l      == emit_log(t, "log_info", span_name, "success")
        Fail(pre, e, span_set) ==
            LET h == unified_handler(t, span_name, e, span_set)
            IN  [out |-> h.out, ev |-> pre \o h.ev]
    IN  IF tracer = "None"
        THEN Fail(<<>>, TelErr("AttributeError", "start_as_current_span"), FALSE)
        ELSE IF tracer = "start_raises"
        THEN Fail(<<Ev("span_start", t, span_name, "-", FALSE)>>,
                  TelErr("RuntimeError", "start_as_current_span"), FALSE)
        ELSE IF attrs.raised
        THEN Fail(start \o attrs.ev \o end_exc,
                  TelErr("RuntimeError", "set_attribute"), TRUE)
        ELSE IF inner.out.kind = "raise"
        THEN Fail(start \o attrs.ev \o inner.ev \o end_exc, inner.out.err, TRUE)
        ELSE IF dur.raised
        THEN Fail(start \o attrs.ev \o inner.ev \o dur.ev \o end_exc,
                  TelErr("RuntimeError", "set_attribute"), TRUE)
        ELSE IF m.raised
        THEN Fail(start \o attrs.ev \o inner.ev \o dur.ev \o m.ev \o end_exc,
                  TelErr("RuntimeError", "metrics"), TRUE)
        ELSE IF l.raised
        THEN Fail(start \o attrs.ev \o inner.ev \o dur.ev \o m.ev \o l.ev \o end_exc,
                  TelErr("RuntimeError", "logs"), TRUE)
        ELSE [out |-> inner.out,
              ev  |-> start \o attrs.ev \o inner.ev \o dur.ev \o m.ev
                      \o l.ev \o end]

(***************************************************************************)
(* decorators.py: trace(name).dec(fn).wrapper(args, kwargs)             *)
(***************************************************************************)
trace_wrapper(chain, i, args) ==
    LET w  == chain[i]
        fn == chain[i-1]
        r  == resolve_telemetry(args.first, chain, i-1)
        \* name or fn.__name__
        span_base == IF w.dname # <<>> THEN w.dname ELSE fn.name
        span_name == <<"telemetry.decorator.">> \o span_base
    IN  IF r.kind = "raise" THEN [out |-> r, ev |-> <<>>]
        \* tele and hasattr(tele, "traces") and hasattr(tele.traces, "tracer")
        ELSE IF r.val # "null" /\ ~NoTraces(r.val)
        THEN unified_trace_wrapper(chain, i, args, r.val, span_name)
        ELSE Call(chain, i-1, args)

(***************************************************************************)
(* decorators.py: metric_counter(name).dec(fn).wrapper(args, kwargs)       *)
(***************************************************************************)
\* the wrapper with the increment placed after the call of fn: a call
\* that raises is not counted
counter_wrapper_AfterBody(chain, i, args) ==
    LET w     == chain[i]
        r     == resolve_telemetry(args.first, chain, i-1)
        inner == Call(chain, i-1, args)
    IN  IF r.kind = "raise" THEN [out |-> r, ev |-> <<>>]
        ELSE IF r.val = "null" \/ inner.out.kind = "raise" THEN inner
        ELSE LET c == try_except(increment_counter(r.val, w.dname))
             IN  IF c.raised
                 THEN [out |-> Raise(TelErr("RuntimeError", "metrics")),
                       ev  |-> inner.ev \o c.ev]
                 ELSE [out |-> inner.out, ev |-> inner.ev \o c.ev]

counter_wrapper(chain, i, args) ==
    LET w     == chain[i]
        r     == resolve_telemetry(args.first, chain, i-1)
        inner == Call(chain, i-1, args)
    IN  IF r.kind = "raise" THEN [out |-> r, ev |-> <<>>]
        \* if tele:
        ELSE IF r.val = "null" THEN inner
        ELSE LET c == try_except(increment_counter(r.val, w.dname))
             IN  IF c.raised
                 THEN [out |-> Raise(TelErr("RuntimeError", "metrics")),
                       ev  |-> c.ev]
                 ELSE [out |-> inner.out, ev |-> c.ev \o inner.ev]

(***************************************************************************)
(* decorators.py: _log(level, message).dec(fn).wrapper(args, kwargs);      *)
(* w.level is the sink method, getattr(tele.logs, level)                   *)
(***************************************************************************)
\* the wrapper with `return fn(...)` moved into the try: when fn raises,
\* the except clause swallows the error and fn is called a second time
log_wrapper_CallInTry(chain, i, args) ==
    LET w     == chain[i]
        r     == resolve_telemetry(args.first, chain, i-1)
        inner == Call(chain, i-1, args)
    IN  IF r.kind = "raise" THEN [out |-> r, ev |-> <<>>]
        ELSE IF r.val = "null" THEN inner
        ELSE LET l == try_except(emit_log(r.val, w.level, w.dname, "-"))
             IN  IF l.raised \/ inner.out.kind = "raise"
                 THEN [out |-> inner.out, ev |-> l.ev \o inner.ev \o inner.ev]
                 ELSE [out |-> inner.out, ev |-> l.ev \o inner.ev]

log_wrapper(chain, i, args) ==
    LET w     == chain[i]
        r     == resolve_telemetry(args.first, chain, i-1)
        inner == Call(chain, i-1, args)
    IN  IF r.kind = "raise" THEN [out |-> r, ev |-> <<>>]
        \* if tele:
        ELSE IF r.val = "null" THEN inner
        ELSE LET l == try_except(emit_log(r.val, w.level, w.dname, "-"))
             IN  IF l.raised
                 THEN [out |-> Raise(TelErr("RuntimeError", "logs")),
                       ev  |-> l.ev]
                 ELSE [out |-> inner.out, ev |-> l.ev \o inner.ev]

\* calling the callable chain[i] with args
Call(chain, i, args) ==
    LET c == chain[i]
    IN  CASE c.kind = "orig" ->
               [out |-> orig(c.name, args),
                ev  |-> <<[op |-> "orig_call", ctx |-> "-", name |-> c.name,
                           tag |-> "-", ok |-> TRUE, args |-> args]>>]
          [] c.kind = "class"   -> wrapper(chain, i, args)
          [] c.kind = "trace"   -> trace_wrapper(chain, i, args)
          [] c.kind = "counter" -> counter_wrapper(chain, i, args)
          [] c.kind = "log"     -> log_wrapper(chain, i, args)
          [] c.kind = "foreign" -> Call(chain, i-1, args)

(***************************************************************************)
(* class_instrumentor.py: instrument_class(cls, telemetry)                 *)
(***************************************************************************)
\* a test for dunder names only: name.startswith("__")
startswith_underscore_Dunder(name) ==
    Len(name) >= 2 /\ name[1] = "_" /\ name[2] = "_"

\* name.startswith("_")
startswith_underscore(name) == name # <<>> /\ Head(name) = "_"

\* make_wrapper(orig_fn, span_name, method_name=name): orig_fn, span_name
\* and method_name are bound per wrapper; class_name, qualified_name,
\* counter_name and histogram_name are free variables read from
\* instrument_class's frame when the wrapper runs, after the loop: `bound`
\* is the member name of the loop's last assignment.
\* functools.wraps copies the name; wrapper._telemetry = telemetry.
make_wrapper(orig_fn, span_name, method_name, telemetry, bound) ==
    [kind |-> "class", name |-> orig_fn.name, tel |-> telemetry,
     telemetry |-> telemetry, span_name |-> span_name,
     method_name |-> method_name,
     qualified_name |-> class_name \o <<".">> \o bound,
     counter_name   |-> <<"telemetry.class.">> \o class_name \o <<".">>
                        \o bound \o <<".calls">>,
     histogram_name |-> <<"telemetry.class.">> \o class_name \o <<".">>
                        \o bound \o <<".duration_ms">>]

instrument_class(table, telemetry) ==
    LET public == SelectSeq(MemberOrder, LAMBDA n : ~startswith_underscore(n))
        bound  == public[Len(public)]
    IN  [n \in Members |->
            IF startswith_underscore(n) THEN table[n]
            ELSE Append(table[n],
                        make_wrapper(Last(table[n]),
                                     <<"telemetry.class.">> \o class_name
                                        \o <<".">> \o n,
                                     n, telemetry, bound))]

(***************************************************************************)
(* States of a telemetry context                                           *)
(***************************************************************************)
TracerModes  == {"ok", "None", "start_raises", "attr_raises",
                 "late_attr_raises", "record_raises"}
MetricsModes == {"ok", "counter_raises", "histogram_raises"}
LogModes     == {"ok", "raises"}

Healthy == [traces |-> "mgr", tracer |-> "ok", metrics |-> "ok", logs |-> "ok"]

\* a dict or object with the key k absent, or present with a value of vals
OptKey(k, vals) == {<<>>} \cup {(k :> v) : v \in vals}

\* sinks in every combination of faults; a context whose traces manager is
\* None, and one without the attribute
HealthStates ==
    [traces : {"mgr"}, tracer : TracerModes, metrics : MetricsModes,
     logs : LogModes]
    \cup {[traces |-> "None", tracer |-> "ok", metrics |-> "ok", logs |-> "ok"],
          [tracer |-> "ok", metrics |-> "ok", logs |-> "ok"]}

\* the master switch and rule sets over the sample class's methods
SwitchStates ==
    OptKey("enable_traces", {FALSE})
    \cup {[enable_traces |-> TRUE,
           trace_rules |-> [business |-> [exclude_methods |-> <<N_foo>>]]],
          [enable_traces |-> TRUE,
           trace_rules |-> [business |-> [include_methods |-> <<N_bar>>]]]}

TeleStates ==
    {h @@ [enable_traces |-> TRUE] : h \in HealthStates}
    \cup {Healthy @@ s : s \in SwitchStates}

(***************************************************************************)
(* Inputs of the decision engine                                           *)
(***************************************************************************)
\* calls of should_trace on one input
MaxDecisions == 2

HttpRules ==
    {a @@ b : a \in OptKey("include_routes", {<<>>, <<S_api_star>>}),
              b \in OptKey("exclude_routes", {<<S_api_health>>, <<S_star>>})}
\* "Svc*" matches the class name and the qualified names, and no method
BusinessRules ==
    {a @@ b : a \in OptKey("include_methods", {<<>>, <<S_get_star>>}),
              b \in OptKey("exclude_methods",
                           {<<S_get_secret>>, <<S_q_ave>>, <<S_Svc_star>>})}
TraceRules ==
    {h @@ b @@ g : h \in OptKey("http", HttpRules),
                   b \in OptKey("business", BusinessRules),
                   g \in OptKey("grpc", {[include_methods |-> <<S_save>>]})}

\* None, and contexts with the flag missing, False or True and the rule
\* set missing, empty or configured
DecisionContexts ==
    {None} \cup
    {e @@ r : e \in OptKey("enable_traces", BOOLEAN),
              r \in OptKey("trace_rules", TraceRules)}

BusinessDescriptor(method) ==
    [layer |-> "business", class |-> class_name, method |-> method,
     qualified_name |-> class_name \o <<".">> \o method]

Descriptors ==
    {[layer |-> "http", route |-> r, method |-> S_GET] :
        r \in {S_api_users, S_api_health, S_other}}
    \cup {BusinessDescriptor(m) : m \in {S_get_all, S_get_secret, S_save}}
    \cup {BusinessDescriptor(S_get_all) @@ [route |-> S_get_secret]}
    \cup {[layer |-> "grpc", method |-> S_save],
          [layer |-> "http"],
          [method |-> S_get_secret]}

(***************************************************************************)
(* database_instrumentor.py: DatabaseInstrumentor                          *)
(***************************************************************************)
\* operations on one DatabaseInstrumentor in one run
MaxDbOps == 3

L_sqlalchemy == <<"s","q","l","a","l","c","h","e","m","y">>
L_psycopg2   == <<"p","s","y","c","o","p","g","2">>
L_redis      == <<"r","e","d","i","s">>
L_pymongo    == <<"p","y","m","o","n","g","o">>
L_pymysql    == <<"p","y","m","y","s","q","l">>
L_Redis      == <<"R","e","d","i","s">>

\* str.lower(), on the letters that occur in the names above
lower_char(c) ==
    CASE c = "R" -> "r" [] c = "S" -> "s" [] c = "P" -> "p"
      [] c = "F" -> "f" [] OTHER -> c
lower(str) == [i \in 1..Len(str) |-> lower_char(str[i])]

\* _INSTRUMENTOR_MAP: library -> vendor instrumentor class
INSTRUMENTOR_MAP ==
    (L_sqlalchemy :> "SQLAlchemyInstrumentor")
    @@ (L_psycopg2 :> "Psycopg2Instrumentor")
    @@ (L_redis :> "RedisInstrumentor")
    @@ (L_pymongo :> "PymongoInstrumentor")

\* what the environment does when the vendor instrumentor of a library is
\* imported, constructed and called
InstrumentOutcomes == {"ok", "import_fails", "ctor_raises", "vendor_raises"}
UninstrumentOutcomes == {"ok", "import_fails", "no_method", "vendor_raises"}

\* the libraries argument of instrument, and the lib argument of uninstrument
LibraryLists ==
    {<<L_redis>>, <<L_sqlalchemy>>, <<L_pymysql, L_redis>>,
     <<L_Redis, L_redis>>}
LibraryNames == {L_Redis, L_sqlalchemy, L_pymysql}

NoOp == [op |-> "none", libs |-> <<>>, outcomes |-> <<>>, engine |-> "None",
         results |-> <<>>, raised |-> FALSE, vendor |-> <<>>,
         status_before |-> <<>>,
         calls_before |-> [l \in DOMAIN INSTRUMENTOR_MAP |-> 0], n |-> 0]

\* inst.instrument(engine=sqlalchemy_engine) or inst.instrument()
vendor_call(lib, engine, ok) ==
    [lib |-> lib, ok |-> ok,
     engine |-> IF lib = L_sqlalchemy /\ engine # "None" THEN engine ELSE "-"]

\* the loop body without the already-instrumented test: the vendor
\* instrumentor is called whatever the status says
instrument_one_NoStatusCheck(status, lib, outcome, engine) ==
    IF lib \notin DOMAIN INSTRUMENTOR_MAP
    THEN [status |-> status, reported |-> FALSE, vendor |-> <<>>,
          raised |-> FALSE]
    ELSE IF outcome = "import_fails"
    THEN [status |-> status, reported |-> FALSE, vendor |-> <<>>,
          raised |-> FALSE]
    ELSE IF outcome = "ctor_raises"
    THEN [status |-> status, reported |-> FALSE, vendor |-> <<>>,
          raised |-> TRUE]
    ELSE IF outcome = "vendor_raises"
    THEN [status |-> status, reported |-> FALSE,
          vendor |-> <<vendor_call(lib, engine, FALSE)>>, raised |-> FALSE]
    ELSE [status |-> (lib :> "instrumented") @@ status, reported |-> TRUE,
          vendor |-> <<vendor_call(lib, engine, TRUE)>>, raised |-> FALSE]

\* one iteration of the loop of instrument, lines 60-119, for the
\* lower-cased name lib: the status map afterwards, results[lib], the vendor
\* calls made, and whether an exception left the loop (line 95 is outside
\* the try blocks)
instrument_one(status, lib, outcome, engine) ==
    IF DictGet(status, lib, "<None>") = "instrumented"
    THEN [status |-> status, reported |-> TRUE, vendor |-> <<>>,
          raised |-> FALSE]
    ELSE IF lib \notin DOMAIN INSTRUMENTOR_MAP
    THEN [status |-> status, reported |-> FALSE, vendor |-> <<>>,
          raised |-> FALSE]
    ELSE IF outcome = "import_fails"
    THEN [status |-> status, reported |-> FALSE, vendor |-> <<>>,
          raised |-> FALSE]
    ELSE IF outcome = "ctor_raises"
    THEN [status |-> status, reported |-> FALSE, vendor |-> <<>>,
          raised |-> TRUE]
    ELSE IF outcome = "vendor_raises"
    THEN [status |-> status, reported |-> FALSE,
          vendor |-> <<vendor_call(lib, engine, FALSE)>>, raised |-> FALSE]
    ELSE [status |-> (lib :> "instrumented") @@ status, reported |-> TRUE,
          vendor |-> <<vendor_call(lib, engine, TRUE)>>, raised |-> FALSE]

\* instrument(libraries, sqlalchemy_engine): the loop over libraries
RECURSIVE instrument(_, _, _, _, _)
instrument(status, results, libraries, outcomes, engine) ==
    IF libraries = <<>>
    THEN [status |-> status, results |-> results, vendor |-> <<>>,
          raised |-> FALSE]
    ELSE LET lib == lower(Head(libraries))
             one == instrument_one(status, lib, Head(outcomes), engine)
         IN  IF one.raised
             THEN [status |-> one.status, results |-> results,
                   vendor |-> one.vendor, raised |-> TRUE]
             ELSE LET rest == instrument(one.status,
                                         (lib :> one.reported) @@ results,
                                         Tail(libraries), Tail(outcomes),
                                         engine)
                  IN  [rest EXCEPT !.vendor = one.vendor \o rest.vendor]

\* uninstrument(lib), lines 126-153, for the lower-cased name lib
uninstrument(status, lib, outcome) ==
    IF lib \notin DOMAIN INSTRUMENTOR_MAP
    THEN [status |-> status, reported |-> FALSE]
    ELSE IF outcome \in {"import_fails", "vendor_raises"}
    THEN [status |-> status, reported |-> FALSE]
    ELSE [status |-> (lib :> "uninstrumented") @@ status, reported |-> TRUE]

(***************************************************************************)
(* traces.py: TracesManager.start_span, a generator under @contextmanager, *)
(* used as `with tm.start_span(name, attributes, kind) as span: <body>`    *)
(***************************************************************************)
\* uses of start_span in one run
MaxSpanUses == 2

\* TracesManager.__init__ and the module's import: without opentelemetry
\* both SpanKind and the tracer are None; with it the tracer is the global
\* provider's tracer, or None when get_tracer raised.  "start_raises" is a
\* tracer whose start_as_current_span raises.
TracesManagerStates ==
    {[tracer |-> "None", SpanKind |-> "None"]}
    \cup {[tracer |-> t, SpanKind |-> "SpanKind"] :
             t \in {"None", "ok", "start_raises"}}

\* what the body of the with-block does: return, raise an Exception, or
\* raise a BaseException that is not an Exception
Bodies == {"returns", "ValueError", "KeyboardInterrupt"}

BodyErr(type) == [type |-> type, origin |-> "app", fn |-> <<"body">>, args |-> <<>>]

\* the fallback span object
DummySpan == "DummySpan"

\* _normalize_kind(kind)
normalize_kind(kind) ==
    IF kind # "None" THEN kind
    ELSE IF tm.SpanKind # "None" THEN "INTERNAL"
    ELSE "None"

\* __enter__ = next(gen): the generator runs to its first yield
start_span_enter(attributes, kind) ==
    LET k == normalize_kind(kind)
    IN  IF tm.tracer = "ok"
        THEN [gen |-> "yield_span", yielded |-> <<"span">>,
              ev |-> <<[op |-> "span_start", kind |-> k, attributes |-> attributes]>>]
        \* no tracer, or start_as_current_span raised: except Exception: pass
        ELSE [gen |-> "yield_dummy", yielded |-> <<DummySpan>>, ev |-> <<>>]

\* __exit__ of contextlib's _GeneratorContextManager: next(gen) when the
\* body returned, gen.throw(exc) when it raised; a generator that yields
\* again is an error of the context manager
start_span_exit(gen, body) ==
    IF body = "returns"
    THEN [gen |-> "finished", yielded |-> <<>>, out |-> Ret("None"),
          ev |-> IF gen = "yield_span" THEN <<[op |-> "span_end"]>> ELSE <<>>]
    ELSE IF gen = "yield_dummy"
    \* thrown at the fallback yield, outside the try: leaves the generator
    THEN [gen |-> "finished", yielded |-> <<>>, out |-> Raise(BodyErr(body)),
          ev |-> <<>>]
    ELSE IF body = "KeyboardInterrupt"
    \* the span's with-block ends the span; except Exception does not match
    THEN [gen |-> "finished", yielded |-> <<>>, out |-> Raise(BodyErr(body)),
          ev |-> <<[op |-> "span_end"]>>]
    \* except Exception: pass, then the fallback yield runs
    ELSE [gen |-> "yield_dummy", yielded |-> <<DummySpan>>,
          out |-> Raise(TelErr("RuntimeError", "generator didn't stop after throw()")),
          ev |-> <<[op |-> "span_end"]>>]

NoUse ==
    [pc |-> "idle", n |-> 0, gen |-> "none", yielded |-> <<>>, ev |-> <<>>,
     attributes |-> "None", kind |-> "None", body |-> "none",
     out |-> Ret("None")]

IdleSpan ==
    /\ tm = [tracer |-> "None", SpanKind |-> "None"]
    /\ use = NoUse

(***************************************************************************)
(* framework_instrumentor.py: FrameworkInstrumentor and the request hooks  *)
(* instrument_app installs                                                 *)
(***************************************************************************)
\* request hooks of the SDK on one application
MaxInstruments == 2

F_flask     == <<"f","l","a","s","k">>
F_Flask     == <<"F","l","a","s","k">>
F_fastapi   == <<"f","a","s","t","a","p","i">>
F_starlette == <<"s","t","a","r","l","e","t","t","e">>
F_django    == <<"d","j","a","n","g","o">>
F_tornado   == <<"t","o","r","n","a","d","o">>

\* the applications: a Flask app (wsgi_app, route, before_request), an ASGI
\* app (router, add_event_handler, add_middleware, user_middleware) and an
\* object with none of these attributes
AppKinds == [flask_app |-> "flask", asgi_app |-> "asgi", plain_app |-> "plain"]
Apps == DOMAIN AppKinds

\* the framework argument of instrument_app
FrameworkArgs == {None, F_flask, F_Flask, F_fastapi, F_starlette, F_tornado}

\* what the environment holds when instrument_app runs: whether fastapi is
\* in sys.modules, whether the vendor instrumentation package and django
\* can be imported
Envs == [fastapi_loaded : BOOLEAN, vendor : {"ok", "import_fails"},
         django : {"ok", "import_fails"}]

\* the names bound in the module's namespace: its imports and definitions
ModuleNames == {"logging", "sys", "Any", "should_trace", "logger",
                "FrameworkInstrumentor"}

\* the attributes of a RouteTraceMiddleware instance (BaseHTTPMiddleware)
MiddlewareAttrs == {"app", "dispatch_func", "dispatch"}

\* contexts assigned to the instrumentor's telemetry attribute
FrameworkContexts ==
    {[enable_traces |-> FALSE],
     [enable_traces |-> TRUE],
     [enable_traces |-> TRUE,
      trace_rules |-> [http |-> [exclude_routes |-> <<S_api_health>>]]]}

\* hooks of the SDK on an application
Installed(app) ==
    apps[app].guards
        + Len(SelectSeq(apps[app].middleware,
                        LAMBDA m : m = "RouteTraceMiddleware"))

\* instrument_app(app, framework) -> bool
instrument_app(app, framework, env) ==
    LET kind == AppKinds[app]
        failed == [result |-> FALSE, apps |-> apps, fi |-> fi]
        detected ==
            IF framework # None THEN framework
            ELSE IF kind = "flask" THEN F_flask
            ELSE IF kind = "asgi"
                 THEN IF env.fastapi_loaded THEN F_fastapi ELSE F_starlette
            ELSE IF env.django = "ok" THEN F_django
            ELSE None
        fw == lower(detected)
        record(name) ==
            [fi EXCEPT !.instrumented_apps = (app :> name) @@ @]
    IN  IF detected = None THEN failed
        ELSE IF fw = F_flask
        THEN \* the import, FlaskInstrumentor().instrument_app(app) or
             \* app.before_request raises: the outer except returns False
             IF env.vendor # "ok" \/ kind # "flask" THEN failed
             ELSE [result |-> TRUE,
                   apps |-> [apps EXCEPT ![app].guards = @ + 1],
                   fi |-> record(F_flask)]
        ELSE IF fw \in {F_fastapi, F_starlette}
        THEN IF env.vendor # "ok" \/ kind # "asgi" THEN failed
             ELSE LET existing == apps[app].middleware
                      otel == IF \E i \in 1..Len(existing) :
                                    existing[i] = "OpenTelemetryMiddleware"
                              THEN existing
                              ELSE Append(existing, "OpenTelemetryMiddleware")
                  IN  [result |-> TRUE,
                       apps |-> [apps EXCEPT ![app].middleware =
                                    Append(otel, "RouteTraceMiddleware")],
                       fi |-> record(fw)]
        ELSE IF fw = F_django
        THEN IF env.django # "ok" \/ env.vendor # "ok" THEN failed
             ELSE [result |-> TRUE, apps |-> apps, fi |-> record(F_django)]
        ELSE failed

\* uninstrument_app(app) -> bool
uninstrument_app(app, env) ==
    LET framework == DictGet(fi.instrumented_apps, app, None)
    IN  IF framework = F_flask /\ env.vendor = "ok"
        THEN [result |-> TRUE,
              fi |-> [fi EXCEPT !.instrumented_apps =
                         [a \in DOMAIN @ \ {app} |-> @[a]]]]
        ELSE [result |-> FALSE, fi |-> fi]

\* {"layer": "http", "route": request.path, "method": request.method}
http_descriptor(route, method) ==
    [layer |-> "http", route |-> route, method |-> method]

\* _otel_route_trace_guard(), the before_request hook on a Flask app; self
\* is the FrameworkInstrumentor; every exception is logged and swallowed
otel_route_trace_guard(route, method) ==
    LET ctx == http_descriptor(route, method)
        outcome(evaluated, decision, suppressed, error) ==
            [ctx |-> ctx, evaluated |-> evaluated, decision |-> decision,
             suppressed |-> suppressed, error |-> error, passed_on |-> TRUE]
    IN  IF "telemetry" \notin DOMAIN fi
        THEN outcome(FALSE, FALSE, FALSE, "AttributeError")
        ELSE LET decision == should_trace(fi.telemetry, ctx)
             IN  IF decision THEN outcome(TRUE, TRUE, FALSE, "none")
                 \* attach(trace.set_span_in_context(INVALID_SPAN))
                 ELSE IF {"attach", "trace", "INVALID_SPAN"} \subseteq ModuleNames
                 THEN outcome(TRUE, FALSE, TRUE, "none")
                 ELSE outcome(TRUE, FALSE, FALSE, "NameError")

\* RouteTraceMiddleware.dispatch(request, call_next); self is the
\* middleware object; nothing is caught
dispatch(route, method) ==
    LET ctx == http_descriptor(route, method)
    IN  IF "telemetry" \notin MiddlewareAttrs
        THEN [ctx |-> ctx, evaluated |-> FALSE, decision |-> FALSE,
              suppressed |-> FALSE, error |-> "AttributeError",
              passed_on |-> FALSE]
        ELSE LET decision == should_trace(fi.telemetry, ctx)
                 bound == {"attach", "trace", "INVALID_SPAN"} \subseteq ModuleNames
             IN  [ctx |-> ctx, evaluated |-> TRUE, decision |-> decision,
                  suppressed |-> ~decision /\ bound,
                  error |-> IF decision \/ bound THEN "none" ELSE "NameError",
                  passed_on |-> decision \/ bound]

\* a request without a hook of the SDK goes straight to the application
unhooked ==
    [ctx |-> None, evaluated |-> FALSE, decision |-> FALSE,
     suppressed |-> FALSE, error |-> "none", passed_on |-> TRUE]

NoRequest ==
    [app |-> "none", route |-> <<>>, method |-> <<>>, hooked |-> FALSE]
    @@ unhooked

IdleFramework ==
    /\ fi = [instrumented_apps |-> <<>>, result |-> <<>>]
    /\ apps = [a \in Apps |-> [guards |-> 0, middleware |-> <<>>]]
    /\ req = NoRequest

(***************************************************************************)
(* The state machine of the wrapping engine                                *)
(***************************************************************************)
NoCall == [target |-> "none", name |-> <<>>,
           args |-> [first |-> "absent", x |-> "v"],
           out |-> Ret(<<>>), ev |-> <<>>]

\* trace(name): the name argument; <<>> is the default None
DecoratorNames == {<<>>}

\* instrument_class applications so far, decorators on the free function
Applications == Len(cls[N_foo]) - 1
Wraps == Applications + (Len(fns) - 1)

\* wrapping is applied at setup / import time, before the application
\* makes calls
Setup == last.target = "none"

\* a method is called on an instance: its first argument is self, which
\* class instrumentation never inspects
MethodArgs == {a \in Args : a.first = "absent"}

InitWrap ==
    /\ tele \in [Contexts -> TeleStates]
    /\ tele["T2"] = Healthy @@ [enable_traces |-> TRUE]
    /\ cls = [n \in Members |-> <<BaseFn(n)>>]
    /\ fns = <<BaseFn(N_f)>>
    /\ last = NoCall

IdleDecision ==
    /\ d_telemetry = None
    /\ d_ctx = <<>>
    /\ d_result = <<>>

\* no should_trace call is in progress
IdleThreads == th = <<>>

\* create_decorators has not been called
IdleRegistry == registry = <<>>

\* DatabaseInstrumentor.__init__: self._status = {}; no vendor call yet
InitDatabase ==
    /\ db_status = <<>>
    /\ db_calls = [l \in DOMAIN INSTRUMENTOR_MAP |-> 0]
    /\ db_last = NoOp

Init ==
    /\ InitWrap /\ IdleDecision /\ IdleThreads /\ IdleRegistry /\ InitDatabase
    /\ IdleSpan /\ IdleFramework

\* instrument_class(Svc, telemetry)
InstrumentClass(telemetry) ==
    /\ Setup
    /\ Wraps < MaxWraps
    /\ cls' = instrument_class(cls, telemetry)
    /\ UNCHANGED <<tele, fns, last, decisionVars, th, registry, dbVars, spanVars, frameworkVars>>

\* f = trace(name)(f): wrapper._telemetry = getattr(fn, "_telemetry", None)
Decorate(dname) ==
    /\ Setup
    /\ Wraps < MaxWraps
    /\ fns' = Append(fns,
                [kind |-> "trace", name |-> Last(fns).name,
                 tel |-> IF Last(fns).tel = "absent" THEN "null"
                         ELSE Last(fns).tel,
                 dname |-> dname])
    /\ UNCHANGED <<tele, cls, last, decisionVars, th, registry, dbVars, spanVars, frameworkVars>>

\* f = other_decorator(f), a decorator of another library written with
\* functools.wraps: sets __wrapped__ and copies fn.__dict__
WrapForeign ==
    /\ Setup
    /\ Wraps < MaxWraps
    /\ fns' = Append(fns, [kind |-> "foreign", name |-> Last(fns).name,
                           tel |-> Last(fns).tel])
    /\ UNCHANGED <<tele, cls, last, decisionVars, th, registry, dbVars, spanVars, frameworkVars>>

\* callable._telemetry = t, the attachment the resolver looks for
AttachContext(i, t) ==
    /\ Setup
    /\ i \in 1..Len(fns)
    /\ fns[i].tel # t
    /\ fns' = [fns EXCEPT ![i].tel = t]
    /\ UNCHANGED <<tele, cls, last, decisionVars, th, registry, dbVars, spanVars, frameworkVars>>

\* Svc().name(args)
CallMethod(name, args) ==
    /\ LET r == Call(cls[name], Len(cls[name]), args)
       IN  last' = [target |-> "method", name |-> name, args |-> args,
                    out |-> r.out, ev |-> r.ev]
    /\ UNCHANGED <<tele, cls, fns, decisionVars, th, registry, dbVars, spanVars, frameworkVars>>

\* f(args)
CallFunction(args) ==
    /\ LET r == Call(fns, Len(fns), args)
       IN  last' = [target |-> "function", name |-> N_f, args |-> args,
                    out |-> r.out, ev |-> r.ev]
    /\ UNCHANGED <<tele, cls, fns, decisionVars, th, registry, dbVars, spanVars, frameworkVars>>

Next ==
    \/ \E t \in {"null", "T1"} : InstrumentClass(t)
    \/ \E dname \in DecoratorNames : Decorate(dname)
    \/ WrapForeign
    \/ \E i \in 1..MaxWraps + 1 : AttachContext(i, "T1")
    \/ \E n \in Members, a \in MethodArgs : CallMethod(n, a)
    \/ \E a \in Args : CallFunction(a)

Spec == Init /\ [][Next]_vars

(***************************************************************************)
(* The decision engine on its own: should_trace applied to drawn inputs    *)
(***************************************************************************)
IdleWrap ==
    /\ tele = [c \in Contexts |-> Healthy @@ [enable_traces |-> TRUE]]
    /\ cls = [n \in Members |-> <<BaseFn(n)>>]
    /\ fns = <<BaseFn(N_f)>>
    /\ last = NoCall

InitDecision ==
    /\ IdleWrap /\ IdleThreads /\ IdleRegistry /\ InitDatabase
    /\ IdleSpan /\ IdleFramework
    /\ d_telemetry \in DecisionContexts
    /\ d_ctx \in Descriptors
    /\ d_result = <<>>

\* result = should_trace(telemetry, ctx)
Decide ==
    /\ Len(d_result) < MaxDecisions
    /\ d_result' = Append(d_result, should_trace(d_telemetry, d_ctx))
    /\ UNCHANGED <<d_telemetry, d_ctx, wrapVars, th, registry, dbVars, spanVars, frameworkVars>>

NextDecision == Decide

SpecDecision == InitDecision /\ [][NextDecision]_vars

(***************************************************************************)
(* should_trace called from several threads on one shared configuration.   *)
(* A thread's call is a sequence of steps, one per section of the          *)
(* function; its locals trace_rules and layer_rules are references to the  *)
(* shared dicts, so every step reads the shared state as it is then.       *)
(***************************************************************************)
\* threads calling should_trace at the same time
MaxThreads == 2
Threads == 1..MaxThreads

\* the shared configurations: None, the flag off, no rules, and rule sets
\* with rules for http, business and grpc
ConcurrentContexts ==
    {None, [enable_traces |-> FALSE], [enable_traces |-> TRUE]}
    \cup {[enable_traces |-> TRUE, trace_rules |-> r] :
            r \in {x \in TraceRules : DOMAIN x = {"http", "business", "grpc"}}}

InitConcurrent ==
    /\ IdleWrap /\ IdleRegistry /\ InitDatabase
    /\ IdleSpan /\ IdleFramework
    /\ d_telemetry \in ConcurrentContexts
    /\ d_ctx \in Descriptors
    /\ d_result = <<>>
    /\ th = [t \in Threads |-> [pc |-> "switch", result |-> <<>>]]

\* return b
Return(t, b) == th' = [th EXCEPT ![t] = [pc |-> "done", result |-> <<b>>]]
Goto(t, pc) == th' = [th EXCEPT ![t].pc = pc]

\* the shared rule dicts the thread's locals refer to
shared_trace_rules == DictGet(d_telemetry, "trace_rules", <<>>)
shared_layer == DictGet(d_ctx, "layer", "<None>")
shared_layer_rules == DictGet(shared_trace_rules, shared_layer, <<>>)

\* lines 29-30
Switch(t) ==
    /\ th[t].pc = "switch"
    /\ IF ~DictGet(d_telemetry, "enable_traces", FALSE)
       THEN Return(t, FALSE) ELSE Goto(t, "rules")
    /\ UNCHANGED <<d_telemetry, d_ctx, d_result, wrapVars, registry, dbVars, spanVars, frameworkVars>>

\* lines 32-35
Rules(t) ==
    /\ th[t].pc = "rules"
    /\ IF DOMAIN shared_trace_rules = {}
       THEN Return(t, TRUE) ELSE Goto(t, "layer")
    /\ UNCHANGED <<d_telemetry, d_ctx, d_result, wrapVars, registry, dbVars, spanVars, frameworkVars>>

\* lines 37-44, and the dispatch of lines 49, 66 and 83
Layer(t) ==
    /\ th[t].pc = "layer"
    /\ IF DOMAIN shared_layer_rules = {} THEN Return(t, TRUE)
       ELSE IF shared_layer \in {"http", "business"} THEN Goto(t, "include")
       ELSE Return(t, TRUE)
    /\ UNCHANGED <<d_telemetry, d_ctx, d_result, wrapVars, registry, dbVars, spanVars, frameworkVars>>

\* the key of the value matched and of the two pattern lists, per layer
subject_key == IF shared_layer = "http" THEN "route" ELSE "method"
include_key == IF shared_layer = "http" THEN "include_routes"
               ELSE "include_methods"
exclude_key == IF shared_layer = "http" THEN "exclude_routes"
               ELSE "exclude_methods"

\* lines 50-55 and 67-72
Include(t) ==
    /\ th[t].pc = "include"
    /\ LET subject == DictGet(d_ctx, subject_key, <<>>)
           include == DictGet(shared_layer_rules, include_key, <<>>)
       IN  IF include # <<>> /\ ~AnyMatch(subject, include)
           THEN Return(t, FALSE) ELSE Goto(t, "exclude")
    /\ UNCHANGED <<d_telemetry, d_ctx, d_result, wrapVars, registry, dbVars, spanVars, frameworkVars>>

\* the lookup written with setdefault: a missing key is inserted
exclude_lookup_SetDefault(layer_rules, key) ==
    [value |-> DictGet(layer_rules, key, <<>>),
     dict  |-> IF key \in DOMAIN layer_rules THEN layer_rules
               ELSE layer_rules @@ (key :> <<>>)]

\* layer_rules.get(key, []): the value, and the dict as the call leaves it
exclude_lookup(layer_rules, key) ==
    [value |-> DictGet(layer_rules, key, <<>>), dict |-> layer_rules]

\* lines 57-61 and 74-78
Exclude(t) ==
    /\ th[t].pc = "exclude"
    /\ LET subject == DictGet(d_ctx, subject_key, <<>>)
           got     == exclude_lookup(shared_layer_rules, exclude_key)
       IN  /\ Return(t, ~AnyMatch(subject, got.value))
           /\ d_telemetry' =
                 [d_telemetry EXCEPT !.trace_rules[shared_layer] = got.dict]
    /\ UNCHANGED <<d_ctx, d_result, wrapVars, registry, dbVars, spanVars, frameworkVars>>

NextConcurrent ==
    \E t \in Threads :
        Switch(t) \/ Rules(t) \/ Layer(t) \/ Include(t) \/ Exclude(t)

SpecConcurrent == InitConcurrent /\ [][NextConcurrent]_vars

(***************************************************************************)
(* One DatabaseInstrumentor, its instrument and uninstrument calls          *)
(***************************************************************************)
InitDatabaseSpec ==
    /\ IdleWrap /\ IdleDecision /\ IdleThreads /\ IdleRegistry
    /\ InitDatabase
    /\ IdleSpan /\ IdleFramework

\* calls of the vendor instrumentor of lib among the vendor calls
VendorCalls(vendor, lib) == Len(SelectSeq(vendor, LAMBDA v : v.lib = lib))

\* results = db.instrument(libraries, sqlalchemy_engine=engine)
Instrument(libraries, outcomes, engine) ==
    /\ db_last.n < MaxDbOps
    /\ engine = "None"
       \/ \E i \in 1..Len(libraries) : lower(libraries[i]) = L_sqlalchemy
    /\ LET r == instrument(db_status, <<>>, libraries, outcomes, engine)
       IN  /\ db_status' = r.status
           /\ db_calls' = [l \in DOMAIN db_calls |->
                              db_calls[l] + VendorCalls(r.vendor, l)]
           /\ db_last' = [op |-> "instrument", libs |-> libraries,
                          outcomes |-> outcomes, engine |-> engine,
                          results |-> r.results, raised |-> r.raised,
                          vendor |-> r.vendor, status_before |-> db_status,
                          calls_before |-> db_calls, n |-> db_last.n + 1]
    /\ UNCHANGED <<wrapVars, decisionVars, th, registry, spanVars, frameworkVars>>

\* ok = db.uninstrument(name)
Uninstrument(name, outcome) ==
    /\ db_last.n < MaxDbOps
    /\ LET lib == lower(name)
           r   == uninstrument(db_status, lib, outcome)
       IN  /\ db_status' = r.status
           /\ db_last' = [op |-> "uninstrument", libs |-> <<name>>,
                          outcomes |-> <<outcome>>, engine |-> "None",
                          results |-> (lib :> r.reported), raised |-> FALSE,
                          vendor |-> <<>>, status_before |-> db_status,
                          calls_before |-> db_calls, n |-> db_last.n + 1]
    /\ UNCHANGED <<db_calls, wrapVars, decisionVars, th, registry, spanVars, frameworkVars>>

NextDatabase ==
    \/ \E libraries \in LibraryLists, engine \in {"None", "engine"} :
          \E outcomes \in [1..Len(libraries) -> InstrumentOutcomes] :
              Instrument(libraries, outcomes, engine)
    \/ \E name \in LibraryNames, outcome \in UninstrumentOutcomes :
          Uninstrument(name, outcome)

SpecDatabase == InitDatabaseSpec /\ [][NextDatabase]_vars

(***************************************************************************)
(* The decorators: trace, metric_counter and the log decorators, taken     *)
(* from the module or from a registry made by create_decorators            *)
(***************************************************************************)
\* decorators applied to the free function in one run
MaxDecorators == 1

\* the sink method a log decorator calls: log_info, log_debug,
\* log_warning, log_error
LogLevels == {"log_info", "log_debug", "log_warning", "log_error"}

\* the decorators of the module; "-" where a decorator has no level
DecoratorChoices ==
    {[kind |-> "trace", level |-> "-", dname |-> <<>>],
     [kind |-> "counter", level |-> "-", dname |-> <<"db_calls">>]}
    \cup {[kind |-> "log", level |-> l, dname |-> <<"msg">>] : l \in LogLevels}

\* contexts whose sinks work, and contexts whose metrics sink or log sink
\* raises or is missing
DecoratorTeleStates ==
    {[traces |-> "mgr", tracer |-> "ok", metrics |-> m, logs |-> "ok",
      enable_traces |-> TRUE] : m \in {"ok", "counter_raises", "missing"}}
    \cup
    {[traces |-> "mgr", tracer |-> "ok", metrics |-> "ok", logs |-> l,
      enable_traces |-> TRUE] : l \in {"raises", "missing"}}

\* decorator wrappers on the free function
Decorators ==
    Len(SelectSeq(fns, LAMBDA c : c.kind \in {"trace", "counter", "log"}))

InitDecorators ==
    /\ tele \in [Contexts -> DecoratorTeleStates]
    /\ tele["T2"] = Healthy @@ [enable_traces |-> TRUE]
    /\ cls = [n \in Members |-> <<BaseFn(n)>>]
    /\ fns = <<BaseFn(N_f)>>
    /\ last = NoCall
    /\ registry = <<>>
    /\ IdleDecision /\ IdleThreads /\ InitDatabase
    /\ IdleSpan /\ IdleFramework

\* d = create_decorators(telemetry): the dict's values are the module's
\* decorator factories themselves; the loop sets _telemetry on each factory
CreateDecorators(telemetry) ==
    /\ Setup
    /\ registry' = Append(SelectSeq(registry, LAMBDA c : c # telemetry),
                          telemetry)
    /\ registry' # registry
    /\ UNCHANGED <<wrapVars, decisionVars, th, dbVars, spanVars, frameworkVars>>

\* trace._telemetry, metric_counter._telemetry, ...: the attribute
\* create_decorators leaves on the factories
factory_telemetry == IF registry = <<>> THEN "absent" ELSE Last(registry)

\* f = dec(...)(f) with dec one of the module's decorators, written as the
\* module's name (via = "module") or fetched from the registry made for the
\* context via; wrapper._telemetry = getattr(fn, "_telemetry", None)
DecorateFrom(via, choice) ==
    /\ Setup
    /\ Decorators < MaxDecorators
    /\ via = "module" \/ \E i \in 1..Len(registry) : registry[i] = via
    /\ fns' = Append(fns,
                [kind |-> choice.kind, name |-> Last(fns).name,
                 tel |-> IF Last(fns).tel = "absent" THEN "null"
                         ELSE Last(fns).tel,
                 dname |-> choice.dname, level |-> choice.level,
                 via |-> via])
    /\ UNCHANGED <<tele, cls, last, decisionVars, th, registry, dbVars, spanVars, frameworkVars>>

NextDecorators ==
    \/ \E t \in Contexts : CreateDecorators(t)
    \/ \E via \in {"module"} \cup Contexts, c \in DecoratorChoices :
          DecorateFrom(via, c)
    \/ \E i \in 1..MaxDecorators + 1 : AttachContext(i, "T1")
    \/ \E a \in Args : CallFunction(a)

SpecDecorators == InitDecorators /\ [][NextDecorators]_vars

(***************************************************************************)
(* The wrappers together: class instrumentation and the module's           *)
(* decorators, MaxDecorators wrappers in all, with the wrapper's attached  *)
(* context replaced after instrumentation                                  *)
(***************************************************************************)
\* contexts with one part failing: the tracer, the metrics sink, the log
\* sink or the traces manager
WrapperTeleStates ==
    {h @@ [enable_traces |-> TRUE] :
        h \in {[Healthy EXCEPT !.tracer = m] : m \in TracerModes}
            \cup {[Healthy EXCEPT !.metrics = m] :
                     m \in MetricsModes \cup {"missing"}}
            \cup {[Healthy EXCEPT !.logs = l] : l \in LogModes \cup {"missing"}}
            \cup {[Healthy EXCEPT !.traces = "None"]}}

InitWrappers ==
    /\ tele \in [Contexts -> WrapperTeleStates]
    /\ tele["T2"] = Healthy @@ [enable_traces |-> TRUE]
    /\ cls = [n \in Members |-> <<BaseFn(n)>>]
    /\ fns = <<BaseFn(N_f)>>
    /\ last = NoCall
    /\ IdleDecision /\ IdleThreads /\ IdleRegistry /\ InitDatabase
    /\ IdleSpan /\ IdleFramework

\* Svc.name._telemetry = t on the installed wrapper: the attribute set by
\* `wrapper._telemetry = telemetry` "to override later"
OverrideContext(name, t) ==
    /\ Setup
    /\ Last(cls[name]).kind = "class"
    /\ Last(cls[name]).tel # t
    /\ cls' = [cls EXCEPT ![name] = [@ EXCEPT ![Len(@)].tel = t]]
    /\ UNCHANGED <<tele, fns, last, decisionVars, th, registry, dbVars, spanVars, frameworkVars>>

NextWrappers ==
    \/ Wraps < MaxDecorators /\ InstrumentClass("T1")
    \/ \E c \in DecoratorChoices :
          Wraps < MaxDecorators /\ DecorateFrom("module", c)
    \/ \E i \in 1..MaxDecorators + 1 : AttachContext(i, "T1")
    \/ \E n \in {N_bar, N_foo} : OverrideContext(n, "T2")
    \/ \E n \in Members, a \in MethodArgs : CallMethod(n, a)
    \/ \E a \in Args : CallFunction(a)

SpecWrappers == InitWrappers /\ [][NextWrappers]_vars

(***************************************************************************)
(* Uses of TracesManager.start_span                                        *)
(***************************************************************************)
InitSpan ==
    /\ tm \in TracesManagerStates
    /\ use = NoUse
    /\ IdleWrap /\ IdleDecision /\ IdleThreads /\ IdleRegistry /\ InitDatabase
    /\ IdleFramework

\* with tm.start_span(name, attributes, kind) as span:
Enter(attributes, kind) ==
    /\ use.pc = "idle"
    /\ use.n < MaxSpanUses
    /\ LET r == start_span_enter(attributes, kind)
       IN  use' = [pc |-> "body", n |-> use.n + 1, gen |-> r.gen,
                   yielded |-> r.yielded, ev |-> r.ev,
                   attributes |-> attributes, kind |-> kind,
                   body |-> "none", out |-> Ret("None")]
    /\ UNCHANGED <<tm, wrapVars, decisionVars, th, registry, dbVars, frameworkVars>>

\* the body ends and the with-statement calls __exit__
Exit(body) ==
    /\ use.pc = "body"
    /\ LET r == start_span_exit(use.gen, body)
       IN  use' = [use EXCEPT !.pc = "idle", !.gen = r.gen,
                              !.yielded = @ \o r.yielded,
                              !.ev = @ \o r.ev, !.body = body, !.out = r.out]
    /\ UNCHANGED <<tm, wrapVars, decisionVars, th, registry, dbVars, frameworkVars>>

NextSpan ==
    \/ \E a \in {"None", "attrs"}, k \in {"None", "SERVER"} : Enter(a, k)
    \/ \E b \in Bodies : Exit(b)

SpecSpan == InitSpan /\ [][NextSpan]_vars

(***************************************************************************)
(* Applications instrumented by FrameworkInstrumentor and their requests   *)
(***************************************************************************)
InitFramework ==
    /\ IdleFramework
    /\ IdleWrap /\ IdleDecision /\ IdleThreads /\ IdleRegistry /\ InitDatabase
    /\ IdleSpan

\* ok = fi.instrument_app(app, framework)
InstrumentApp(app, framework, env) ==
    /\ Installed(app) < MaxInstruments
    /\ LET r == instrument_app(app, framework, env)
       IN  /\ fi' = [r.fi EXCEPT !.result = <<r.result>>]
           /\ apps' = r.apps
    /\ UNCHANGED <<req, wrapVars, decisionVars, th, registry, dbVars, spanVars>>

\* ok = fi.uninstrument_app(app)
UninstrumentApp(app, env) ==
    /\ LET r == uninstrument_app(app, env)
       IN  fi' = [r.fi EXCEPT !.result = <<r.result>>]
    /\ fi' # fi
    /\ UNCHANGED <<apps, req, wrapVars, decisionVars, th, registry, dbVars, spanVars>>

\* fi.telemetry = t, assigned from outside: the class never sets it
SetTelemetry(t) ==
    /\ IF "telemetry" \in DOMAIN fi THEN fi.telemetry # t ELSE TRUE
    /\ fi' = ("telemetry" :> t) @@ fi
    /\ UNCHANGED <<apps, req, wrapVars, decisionVars, th, registry, dbVars, spanVars>>

\* an inbound request to app: the hooks run, the last registered middleware
\* first
Request(app, route, method) ==
    /\ LET r == IF apps[app].guards > 0
                THEN otel_route_trace_guard(route, method)
                ELSE IF apps[app].middleware # <<>>
                THEN dispatch(route, method)
                ELSE unhooked
       IN  req' = [app |-> app, route |-> route, method |-> method,
                   hooked |-> Installed(app) > 0] @@ r
    /\ UNCHANGED <<fi, apps, wrapVars, decisionVars, th, registry, dbVars, spanVars>>

NextFramework ==
    \/ \E a \in Apps, f \in FrameworkArgs, e \in Envs : InstrumentApp(a, f, e)
    \/ \E a \in Apps, e \in Envs : UninstrumentApp(a, e)
    \/ \E t \in FrameworkContexts : SetTelemetry(t)
    \/ \E a \in Apps, r \in {S_api_users, S_api_health} : Request(a, r, S_GET)

SpecFramework == InitFramework /\ [][NextFramework]_vars

(***************************************************************************)
(* Observations on the most recent call                                    *)
(***************************************************************************)
Called == last.target # "none"

\* what the unwrapped original does on the same arguments
Expected == orig(last.name, last.args)

\* the chain the call went through
TargetChain == IF last.target = "method" THEN cls[last.name] ELSE fns

Count(ev, ops, oks) ==
    Len(SelectSeq(ev, LAMBDA e : e.op \in ops /\ e.ok \in oks))

OrigCalls == Count(last.ev, {"orig_call"}, BOOLEAN)

\* the one event of an unwrapped call
DirectCall ==
    <<[op |-> "orig_call", ctx |-> "-", name |-> last.name, tag |-> "-",
       ok |-> TRUE, args |-> last.args]>>

SinksHealthy(t) ==
    /\ tele[t].tracer = "ok"
    /\ tele[t].metrics = "ok"
    /\ tele[t].logs = "ok"

\* a slot that supplies no usable context: no slot, None, or a context
\* without a traces manager
Unusable(slot) == slot \in {"absent", "null"} \/ NoTraces(slot)

NoContextResolvable ==
    /\ Unusable(last.args.first)
    /\ \A i \in 1..Len(TargetChain) :
          /\ Unusable(TargetChain[i].tel)
          /\ TargetChain[i].kind = "class" => Unusable(TargetChain[i].telemetry)

\* the context a wrapper of the chain works with is T1, with a traces manager
UsesT1 ==
    /\ ~NoTraces("T1")
    /\ \E i \in 2..Len(TargetChain) :
          \/ /\ TargetChain[i].kind = "class"
             /\ "T1" = (IF TargetChain[i-1].tel = "absent"
                        THEN TargetChain[i].telemetry
                        ELSE TargetChain[i-1].tel)
          \/ /\ TargetChain[i].kind = "trace"
             /\ resolve_telemetry(last.args.first, TargetChain, i-1) = Ret("T1")

(***************************************************************************)
(* Claims                                                                  *)
(***************************************************************************)

\* C1: error passthrough -- whenever the original has run and raised its
\* error E, the wrapped call raises that same E, in every state of the
\* telemetry sinks.
C1_ErrorPassthrough ==
    (Called /\ OrigCalls = 1 /\ Expected.kind = "raise")
        => last.out = Expected

\* C2: transparency -- with telemetry absent or enabled and healthy, the
\* wrapped call returns exactly what the original of that same method or
\* function returns for the arguments.
C2_Transparency ==
    (Called /\ SinksHealthy("T1") /\ Expected.kind = "ret")
        => last.out = Expected

\* C3: idempotency -- however often instrument_class is applied, every
\* public method carries exactly one wrapper, so a call with healthy
\* telemetry increments the success counter once and starts one span.
C3_Idempotent ==
    /\ \A n \in Members :
          Len(SelectSeq(cls[n], LAMBDA c : c.kind = "class")) <= 1
    /\ (last.target = "method" /\ UsesT1 /\ SinksHealthy("T1")
        /\ Expected.kind = "ret")
          => /\ Count(last.ev, {"counter"}, {TRUE}) = 1
             /\ Count(last.ev, {"span_start"}, {TRUE}) = 1

\* C4: telemetry-failure isolation of @trace -- when increment_counter
\* raises on every invocation, a call of the decorated function whose
\* original returns still returns the original's value.
C4_MetricsFailureIsolated ==
    (/\ last.target = "function"
     /\ Last(fns).kind = "trace"
     /\ resolve_telemetry(last.args.first, fns, Len(fns) - 1) = Ret("T1")
     /\ ~NoTraces("T1")
     /\ tele["T1"].tracer = "ok"
     /\ tele["T1"].metrics = "counter_raises"
     /\ tele["T1"].logs = "ok"
     /\ Expected.kind = "ret")
        => last.out = Expected

\* C5: in a class-instrumented method a failing metrics call or log call
\* stays inside the wrapper: the call returns the original's value or
\* raises the original's error, and each wrapper attempts its counter and
\* its log once and its histogram at most once (no retry).
C5_ClassSinkFailuresContained ==
    (last.target = "method" /\ tele["T1"].tracer = "ok")
        => /\ last.out = Expected
           /\ OrigCalls = 1
           /\ Count(last.ev, {"counter"}, BOOLEAN)
                = Count(last.ev, {"span_start"}, {TRUE})
           /\ Count(last.ev, {"log_info", "log_error"}, BOOLEAN)
                = Count(last.ev, {"span_start"}, {TRUE})
           /\ Count(last.ev, {"histogram"}, BOOLEAN)
                <= Count(last.ev, {"span_start"}, {TRUE})

\* a method whose original raised was called while both the counter and
\* the log sink raise, and the caller got the original's error
C5_Witness ==
    /\ last.target = "method"
    /\ tele["T1"].tracer = "ok"
    /\ Expected.kind = "raise"
    /\ Count(last.ev, {"counter"}, {FALSE}) > 0
    /\ Count(last.ev, {"log_error"}, {FALSE}) > 0
    /\ last.out = Expected

\* C6: if the span start or a span attribute call raises, the original is
\* still executed and the caller sees only the original's result or error.
C6_TracerFailureContained ==
    (/\ Called
     /\ UsesT1
     /\ tele["T1"].tracer \in {"start_raises", "attr_raises", "late_attr_raises"}
     /\ tele["T1"].metrics = "ok"
     /\ tele["T1"].logs = "ok")
        => /\ OrigCalls = 1
           /\ last.out = Expected

\* C7: when no telemetry context is resolvable (every attachment is
\* missing, None or a context without a traces manager), the wrapped call
\* is the unwrapped call: the original runs once on the same arguments, its
\* outcome reaches the caller, and nothing is emitted.
C7_NoContextIdentical ==
    (Called /\ NoContextResolvable)
        => /\ last.out = Expected
           /\ last.ev = DirectCall

\* C8: when the context has a traces manager whose tracer is None, the
\* wrapper calls the original directly, returns its result unchanged and
\* emits no telemetry.
C8_TracerAbsentDirect ==
    (/\ Called
     /\ UsesT1
     /\ tele["T1"].tracer = "None"
     /\ tele["T1"].metrics = "ok"
     /\ tele["T1"].logs = "ok")
        => /\ last.out = Expected
           /\ last.ev = DirectCall

\* C9: a class-instrumented method for which should_trace(context,
\* business descriptor of the method) is false is called directly: no span,
\* no metric and no log reaches the context.
C9_DecisionGatesWrapper ==
    (/\ last.target = "method"
     /\ UsesT1
     /\ SinksHealthy("T1")
     /\ ~should_trace(tele["T1"], BusinessDescriptor(last.name)))
        => /\ last.out = Expected
           /\ last.ev = DirectCall

\* C10: master switch -- should_trace is false whenever the context is
\* None or its enable_traces flag is False or missing, for every descriptor
\* and every rule set.
C10_MasterSwitch ==
    (\/ DOMAIN d_telemetry = {}
     \/ ~DictGet(d_telemetry, "enable_traces", FALSE))
        => \A i \in 1..Len(d_result) : d_result[i] = FALSE

\* should_trace has answered for a context whose flag is False and whose
\* http rules include the descriptor's route
C10_Witness ==
    /\ Len(d_result) > 0
    /\ "enable_traces" \in DOMAIN d_telemetry
    /\ d_telemetry.enable_traces = FALSE
    /\ "layer" \in DOMAIN d_ctx /\ d_ctx.layer = "http"
    /\ "route" \in DOMAIN d_ctx
    /\ "trace_rules" \in DOMAIN d_telemetry
    /\ "http" \in DOMAIN d_telemetry.trace_rules
    /\ "include_routes" \in DOMAIN d_telemetry.trace_rules.http
    /\ AnyMatch(d_ctx.route, d_telemetry.trace_rules.http.include_routes)
    /\ ~AnyMatch(d_ctx.route,
                 DictGet(d_telemetry.trace_rules.http, "exclude_routes", <<>>))
    /\ d_result[1] = FALSE

\* the master switch of the drawn context is on
SwitchOn == DictGet(d_telemetry, "enable_traces", FALSE)

\* the drawn context's rule set ({} when None or missing), the descriptor's
\* layer and the rules the set holds for that layer
DrawnRules == DictGet(d_telemetry, "trace_rules", <<>>)
DrawnLayer == DictGet(d_ctx, "layer", "<None>")
DrawnLayerRules == DictGet(DrawnRules, DrawnLayer, <<>>)

\* every answer should_trace has given on the drawn input is b
Answered(b) == \A i \in 1..Len(d_result) : d_result[i] = b

\* C11: fail-open -- with the master switch on, should_trace answers true
\* when no rule set is configured (missing or empty), when the rule set has
\* no entry for the descriptor's layer (a descriptor without a layer
\* included), and when the layer is neither "http" nor "business" even
\* though rules are configured under that layer's name.
C11_FailOpen ==
    (/\ SwitchOn
     /\ \/ DOMAIN DrawnRules = {}
        \/ DrawnLayer \notin DOMAIN DrawnRules
        \/ DrawnLayer \notin {"http", "business"})
        => Answered(TRUE)

\* should_trace has answered true for a grpc descriptor although the rule
\* set holds rules under "grpc" whose include list does not match it, and
\* also holds http and business rules
C11_Witness ==
    /\ SwitchOn
    /\ Len(d_result) > 0
    /\ d_result[1] = TRUE
    /\ DrawnLayer = "grpc"
    /\ {"grpc", "http", "business"} \subseteq DOMAIN DrawnRules
    /\ d_ctx.method = S_save
    /\ DrawnRules.grpc.include_methods = <<S_save>>

\* C12: http decision -- with the master switch on, rules configured for
\* the http layer and include_routes absent or non-empty, should_trace
\* answers true exactly when (include_routes is absent or the route matches
\* one of its patterns) and the route matches no exclude_routes pattern;
\* with include ["/api/*"] and exclude ["/api/health"] the answer is true
\* for /api/users and false for /api/health and for /other.
C12_HttpDecision ==
    (/\ SwitchOn
     /\ DrawnLayer = "http"
     /\ "http" \in DOMAIN DrawnRules
     /\ DictGet(DrawnLayerRules, "include_routes", <<"absent">>) # <<>>)
        => LET route   == DictGet(d_ctx, "route", <<>>)
               exclude == DictGet(DrawnLayerRules, "exclude_routes", <<>>)
               included ==
                   \/ "include_routes" \notin DOMAIN DrawnLayerRules
                   \/ AnyMatch(route, DrawnLayerRules.include_routes)
           IN  /\ Answered(included /\ ~AnyMatch(route, exclude))
               /\ DrawnLayerRules = [include_routes |-> <<S_api_star>>,
                                     exclude_routes |-> <<S_api_health>>]
                    => /\ route = S_api_users => Answered(TRUE)
                       /\ route = S_api_health => Answered(FALSE)
                       /\ route = S_other => Answered(FALSE)

\* should_trace has answered false for /api/health under include
\* ["/api/*"] and exclude ["/api/health"]: the route matches both lists
C12_Witness ==
    /\ SwitchOn
    /\ DrawnLayer = "http"
    /\ DrawnLayerRules = [include_routes |-> <<S_api_star>>,
                          exclude_routes |-> <<S_api_health>>]
    /\ DictGet(d_ctx, "route", <<>>) = S_api_health
    /\ Len(d_result) > 0
    /\ d_result[1] = FALSE

\* C13: business decision, exclude overrides include -- with the master
\* switch on and business rules, should_trace matches the unqualified
\* method name only (not the route, the class or the qualified name): it
\* answers false for every method that matches an exclude_methods pattern,
\* also when the method matches an include_methods pattern, and true for a
\* method that matches an include pattern and no exclude pattern; with
\* include ["get_*"] and exclude ["get_secret"] the answer is true for
\* get_all and false for get_secret.
C13_BusinessDecision ==
    (/\ SwitchOn
     /\ DrawnLayer = "business"
     /\ "business" \in DOMAIN DrawnRules)
        => LET method  == DictGet(d_ctx, "method", <<>>)
               include == DictGet(DrawnLayerRules, "include_methods", <<>>)
               exclude == DictGet(DrawnLayerRules, "exclude_methods", <<>>)
           IN  /\ AnyMatch(method, exclude) => Answered(FALSE)
               /\ (AnyMatch(method, include) /\ ~AnyMatch(method, exclude))
                    => Answered(TRUE)
               /\ DrawnLayerRules = [include_methods |-> <<S_get_star>>,
                                     exclude_methods |-> <<S_get_secret>>]
                    => /\ method = S_get_all => Answered(TRUE)
                       /\ method = S_get_secret => Answered(FALSE)

\* should_trace has answered false for get_secret under include ["get_*"]
\* and exclude ["get_secret"]: the method matches both lists
C13_Witness ==
    /\ SwitchOn
    /\ DrawnLayer = "business"
    /\ DrawnLayerRules = [include_methods |-> <<S_get_star>>,
                          exclude_methods |-> <<S_get_secret>>]
    /\ DictGet(d_ctx, "method", <<>>) = S_get_secret
    /\ AnyMatch(S_get_secret, <<S_get_star>>)
    /\ Len(d_result) > 0
    /\ d_result[1] = FALSE

\* C14: per-method identifiers -- a call of method m of an instrumented
\* class emits its span, its counter, its histogram and its log message
\* under identifiers derived from Svc.m, m being the method called, and
\* never under another method's name.
C14_PerMethodIdentifiers ==
    last.target = "method"
        => LET own == class_name \o <<".">> \o last.name
           IN  \A i \in 1..Len(last.ev) :
                 LET e == last.ev[i]
                 IN  /\ e.op \in {"span_start", "span_end"}
                        => e.name = <<"telemetry.class.">> \o own
                     /\ e.op = "counter"
                        => e.name = <<"telemetry.class.">> \o own \o <<".calls">>
                     /\ e.op = "histogram"
                        => e.name = <<"telemetry.class.">> \o own
                                    \o <<".duration_ms">>
                     /\ e.op \in {"log_info", "log_error"} => e.name = own

\* C15: instrument_class replaces every public function member of the
\* class by a wrapper around what the member was, and leaves every member
\* whose name starts with an underscore (private and dunder) exactly as it
\* was; the class it returns is the class it was given, with the same
\* members.
C15_PublicWrappedPrivateKept ==
    [][cls' # cls =>
        /\ DOMAIN cls' = DOMAIN cls
        /\ \A n \in Members :
             IF Head(n) = "_"
             THEN cls'[n] = cls[n]
             ELSE /\ Len(cls'[n]) = Len(cls[n]) + 1
                  /\ SubSeq(cls'[n], 1, Len(cls[n])) = cls[n]
                  /\ Last(cls'[n]).kind = "class"]_vars

\* after instrument_class the private method _p was called: it is still the
\* original and ran directly, while bar and foo carry a wrapper and __init__
\* does not
C15_Witness ==
    /\ last.target = "method"
    /\ last.name = N_p
    /\ last.ev = DirectCall
    /\ cls[N_p] = <<BaseFn(N_p)>>
    /\ cls[N_init] = <<BaseFn(N_init)>>
    /\ Len(cls[N_bar]) = 2 /\ Last(cls[N_bar]).kind = "class"
    /\ Len(cls[N_foo]) = 2 /\ Last(cls[N_foo]).kind = "class"

\* the outermost callable of the free function and what its resolver
\* returns on the arguments of the most recent call
Outer == Last(fns)
Resolved == resolve_telemetry(last.args.first, fns, Len(fns) - 1)

\* C17: context resolution never raises -- whatever the first argument and
\* whatever is attached to the callable or to the callable it wraps,
\* _resolve_telemetry returns a context or None.
C17_ResolverNeverRaises ==
    (last.target = "function" /\ Outer.kind = "trace")
        => Resolved.kind = "ret"

\* C18: a decorator fetched from create_decorators(T) is bound to T --
\* applied to a free function with no context attached to it or to its
\* first argument, a call emits telemetry to T and to no other context,
\* also when a registry for another context exists.
C18_RegistryBound ==
    (/\ last.target = "function"
     /\ Len(fns) = 2
     /\ Outer.kind \in {"trace", "counter", "log"}
     /\ Outer.via \in Contexts
     /\ fns[1].tel = "absent"
     /\ Outer.tel = "null"
     /\ last.args.first = "absent"
     /\ tele[Outer.via].metrics = "ok"
     /\ tele[Outer.via].logs = "ok")
        => /\ \E i \in 1..Len(last.ev) : last.ev[i].ctx = Outer.via
           /\ \A i \in 1..Len(last.ev) :
                 last.ev[i].ctx \in Contexts => last.ev[i].ctx = Outer.via

\* C19: a function decorated with metric_counter or a log decorator, called
\* with a resolvable context, makes one counter increment (one log entry at
\* the decorator's level) on that context before the function body runs,
\* and returns or raises exactly as the decorated function does -- also
\* when the sink call raises, and when the sink is missing (then there is
\* nothing to call and only the function runs).
C19_CounterLogDecorators ==
    (/\ last.target = "function"
     /\ Outer.kind \in {"counter", "log"}
     /\ Resolved.kind = "ret"
     /\ Resolved.val \in Contexts)
        => LET fn   == Call(fns, Len(fns) - 1, last.args)
               t    == Resolved.val
               sink == IF Outer.kind = "counter" THEN tele[t].metrics
                       ELSE tele[t].logs
               op   == IF Outer.kind = "counter" THEN "counter"
                       ELSE Outer.level
           IN  /\ last.out = fn.out
               /\ IF sink = "missing" THEN last.ev = fn.ev
                  ELSE /\ last.ev # <<>>
                       /\ Head(last.ev).op = op
                       /\ Head(last.ev).ctx = t
                       /\ Head(last.ev).name = Outer.dname
                       /\ Tail(last.ev) = fn.ev
               /\ Len(fns) = 2 => (last.out = Expected /\ OrigCalls = 1)

\* a function that raises was called through metric_counter while the
\* counter sink raises: the attempt was made first, and the caller got the
\* function's own error
C19_Witness ==
    /\ last.target = "function"
    /\ Outer.kind = "counter"
    /\ Resolved = Ret("T1")
    /\ tele["T1"].metrics = "counter_raises"
    /\ Head(last.ev).op = "counter"
    /\ Head(last.ev).ok = FALSE
    /\ Expected.kind = "raise"
    /\ last.out = Expected

\* C16: should_trace is a pure predicate -- no step of a call changes the
\* telemetry context, its rule set or the call descriptor, and every
\* call, however its steps interleave with those of other threads' calls,
\* returns what a call of should_trace run alone returns on that input.
C16_Pure ==
    /\ [](\A t \in DOMAIN th :
            th[t].pc = "done"
                => th[t].result = <<should_trace(d_telemetry, d_ctx)>>)
    /\ [][d_telemetry' = d_telemetry /\ d_ctx' = d_ctx]_vars

\* one thread has returned false from the exclude stage of rules without
\* an include list while another thread is between its include and its
\* exclude stage
C16_Witness ==
    \E a, b \in DOMAIN th :
        /\ a # b
        /\ th[a].pc = "done"
        /\ th[a].result = <<FALSE>>
        /\ th[b].pc = "exclude"
        /\ shared_layer = "http"
        /\ "include_routes" \notin DOMAIN shared_layer_rules
        /\ "exclude_routes" \in DOMAIN shared_layer_rules

\* the status of lib before the most recent operation and now; "<None>"
\* when the map has no entry
StatusBefore(lib) == DictGet(db_last.status_before, lib, "<None>")
StatusNow(lib) == DictGet(db_status, lib, "<None>")

\* C20: DatabaseInstrumentor is idempotent -- after any sequence of
\* instrument and uninstrument calls, instrument reports True for a library
\* whose status is "instrumented" and does not call its vendor instrumentor
\* again; it reports False for an unknown library, a failed import and a
\* failed vendor call, and whatever it reports False keeps its status; a
\* successful uninstrument leaves the status "uninstrumented", and the next
\* instrument of that library calls the vendor instrumentor again.
C20_DatabaseIdempotent ==
    /\ (db_last.op = "instrument" /\ ~db_last.raised) =>
        /\ \A i \in 1..Len(db_last.libs) :
             LET lib == lower(db_last.libs[i])
                 first == CHOOSE j \in 1..Len(db_last.libs) :
                            /\ lower(db_last.libs[j]) = lib
                            /\ \A k \in 1..(j-1) : lower(db_last.libs[k]) # lib
             IN  /\ lib \in DOMAIN db_last.results
                 /\ StatusBefore(lib) = "instrumented"
                      => /\ db_last.results[lib] = TRUE
                         /\ VendorCalls(db_last.vendor, lib) = 0
                         /\ StatusNow(lib) = "instrumented"
                 /\ lib \notin DOMAIN INSTRUMENTOR_MAP
                      => db_last.results[lib] = FALSE
                 /\ (/\ StatusBefore(lib) # "instrumented"
                     /\ \A j \in 1..Len(db_last.libs) :
                           lower(db_last.libs[j]) = lib
                             => db_last.outcomes[j]
                                  \in {"import_fails", "vendor_raises"})
                      => db_last.results[lib] = FALSE
                 /\ db_last.results[lib] = FALSE
                      => StatusNow(lib) = StatusBefore(lib)
                 /\ (/\ StatusBefore(lib) = "uninstrumented"
                     /\ lib \in DOMAIN INSTRUMENTOR_MAP
                     /\ db_last.outcomes[first] \in {"ok", "vendor_raises"})
                      => /\ VendorCalls(db_last.vendor, lib) >= 1
                         /\ db_calls[lib] > db_last.calls_before[lib]
        /\ (\A lib \in DOMAIN db_last.results : ~db_last.results[lib])
             => db_status = db_last.status_before
    /\ db_last.op = "uninstrument" =>
        LET lib == lower(db_last.libs[1])
        IN  IF db_last.results[lib]
            THEN StatusNow(lib) = "uninstrumented"
            ELSE db_status = db_last.status_before

\* redis was instrumented by one vendor call, and a further
\* instrument(["Redis", "redis"]) reported True without a vendor call
C20_Witness ==
    /\ db_last.op = "instrument"
    /\ db_last.libs = <<L_Redis, L_redis>>
    /\ StatusBefore(L_redis) = "instrumented"
    /\ db_last.results = (L_redis :> TRUE)
    /\ db_last.vendor = <<>>
    /\ db_calls[L_redis] = 1
    /\ db_calls = db_last.calls_before

\* the libraries the class documents as supported (docstring "Supports")
DocumentedLibraries ==
    {L_sqlalchemy, L_psycopg2, L_pymysql, L_redis, L_pymongo}

\* C21: instrument supports each documented library -- for sqlalchemy,
\* psycopg2, pymysql, redis and pymongo, in any letter case, when the vendor
\* instrumentor imports and instruments without error, the result for the
\* library is True and its status is "instrumented" afterwards.
C21_DocumentedSupported ==
    (db_last.op = "instrument" /\ ~db_last.raised) =>
        \A i \in 1..Len(db_last.libs) :
            LET lib == lower(db_last.libs[i])
            IN  (/\ lib \in DocumentedLibraries
                 /\ \A j \in 1..Len(db_last.libs) :
                       lower(db_last.libs[j]) = lib
                         => db_last.outcomes[j] = "ok")
                    => /\ lib \in DOMAIN db_last.results
                       /\ db_last.results[lib] = TRUE
                       /\ StatusNow(lib) = "instrumented"

\* the most recent call went through exactly one wrapper, which started
\* its span
OneSpan ==
    /\ Called
    /\ Len(TargetChain) = 2
    /\ Count(last.ev, {"span_start"}, {TRUE}) = 1

\* positions of the events of the given kinds in the most recent call
Positions(ops) == {i \in 1..Len(last.ev) : last.ev[i].op \in ops}

\* C22: template ordering -- in every traced invocation, on success and on
\* error, the span is started first, the attributes are set before the
\* original runs, the metrics and logs (and, on error, the recording of the
\* error on the span) come after the original and before the span is
\* finalized, and the span's end is the last event before the return or
\* re-raise.
C22_TemplateOrder ==
    \* recording the error on the span, metrics and logs
    LET EmissionOps == {"record_exception", "set_status", "counter",
                        "histogram", "log_info", "log_error"}
    IN  OneSpan =>
        /\ Head(last.ev).op = "span_start"
        /\ last.ev[Len(last.ev)].op = "span_end"
        /\ \A i \in Positions({"set_attribute"}), j \in Positions({"orig_call"}) :
              last.ev[i].name # <<"duration_ms">> => i < j
        /\ \A i \in Positions({"orig_call"}), j \in Positions(EmissionOps) : i < j
        /\ \A i \in Positions(EmissionOps), j \in Positions({"span_end"}) : i < j

\* spans of one name open after the first i events of the most recent call
OpenSpans(i, name) ==
    LET named == SelectSeq(SubSeq(last.ev, 1, i), LAMBDA e : e.name = name)
    IN  Count(named, {"span_start"}, {TRUE}) - Count(named, {"span_end"}, BOOLEAN)

\* names of the spans started or ended in the most recent call
SpanNames ==
    {last.ev[i].name : i \in Positions({"span_start", "span_end"})}

\* wrappers of the chain that open a span when called
TracingWrappers ==
    Len(SelectSeq(TargetChain, LAMBDA c : c.kind \in {"class", "trace"}))

\* C23: span scoping -- every span a wrapper invocation starts is finalized
\* exactly once before the invocation returns or raises, on every exit path
\* (return, the original raising, a telemetry call raising): no span is
\* open after the call, none is ended that is not open, and each wrapper
\* invocation starts at most one span.
C23_SpanScoped ==
    Called =>
        /\ \A name \in SpanNames :
              /\ OpenSpans(Len(last.ev), name) = 0
              /\ \A i \in 1..Len(last.ev) : OpenSpans(i, name) >= 0
        /\ Count(last.ev, {"span_start"}, {TRUE}) <= TracingWrappers

\* a call whose original returned but whose log sink raised inside the
\* decorator's template left by exception, and its span was ended
C23_Witness ==
    /\ OneSpan
    /\ last.target = "function"
    /\ Expected.kind = "ret"
    /\ last.out.kind = "raise"
    /\ Count(last.ev, {"log_info"}, {FALSE}) = 1
    /\ Count(last.ev, {"span_end"}, BOOLEAN) = 1

\* the documented resolution order on the first argument's slot, the slot
\* of chain[j] and the slot of the callable chain[j] wraps
resolution_order(first, chain, j) ==
    \* an attachment slot that holds a context: present and not None
    LET Carries(slot) == slot \notin {"absent", "null"}
    IN  IF Carries(first) THEN Ret(first)
        ELSE IF Carries(chain[j].tel) THEN Ret(chain[j].tel)
        ELSE IF chain[j].kind # "orig" /\ Carries(chain[j-1].tel)
             THEN Ret(chain[j-1].tel)
        ELSE Ret("null")

\* C24: resolution order, first match wins -- _resolve_telemetry returns the
\* context attached to the first argument if it carries one, otherwise the
\* one attached to the callable, otherwise the one attached to the callable
\* it wraps, and None only if none of them carries a context; a slot that is
\* present but holds None is not a match.
C24_ResolutionOrder ==
    (last.target = "function" /\ Outer.kind = "trace")
        => Resolved = resolution_order(last.args.first, fns, Len(fns) - 1)

\* the include list of the drawn layer's rules and what it is matched with
IncludeKey == IF DrawnLayer = "http" THEN "include_routes" ELSE "include_methods"
IncludeSubject ==
    DictGet(d_ctx, IF DrawnLayer = "http" THEN "route" ELSE "method", <<>>)

\* C25: a present include list is binding -- with the master switch on and
\* rules for the http or business layer that hold an include list (empty
\* lists included), should_trace answers false for a route or method that
\* matches none of the list's patterns.
C25_PresentIncludeBinding ==
    (/\ SwitchOn
     /\ DrawnLayer \in {"http", "business"}
     /\ DrawnLayer \in DOMAIN DrawnRules
     /\ IncludeKey \in DOMAIN DrawnLayerRules
     /\ ~AnyMatch(IncludeSubject, DrawnLayerRules[IncludeKey]))
        => Answered(FALSE)

\* counter increments, histogram observations and logs of the most recent
\* call that reached their sink with the given outcome tag
Emitted(tag) ==
    Len(SelectSeq(last.ev,
                  LAMBDA e : /\ e.op \in {"counter", "histogram",
                                          "log_info", "log_error"}
                             /\ e.tag = tag
                             /\ e.ok))

\* C29: single outcome per call -- a call through one class wrapper or one
\* @trace wrapper emits telemetry for one outcome only, whatever the state
\* of the sinks: never success-tagged and error-tagged counters, histograms
\* or logs for the same call, and error-tagged ones only when the original
\* itself ran and raised.
C29_SingleOutcome ==
    (Called /\ Len(TargetChain) = 2 /\ Last(TargetChain).kind \in {"class", "trace"})
        => /\ ~(Emitted("success") > 0 /\ Emitted("error") > 0)
           /\ Emitted("error") > 0 => (OrigCalls = 1 /\ Expected.kind = "raise")

\* C26: later overriding -- after instrument_class(Svc, T1), setting the
\* installed wrapper's _telemetry to T2 makes a call of that method emit its
\* span, metrics and logs to T2 and nothing to T1.
C26_OverrideTakesEffect ==
    (/\ last.target = "method"
     /\ Len(TargetChain) = 2
     /\ Last(TargetChain).kind = "class"
     /\ Last(TargetChain).telemetry = "T1"
     /\ Last(TargetChain).tel = "T2")
        => /\ \A i \in 1..Len(last.ev) : last.ev[i].ctx # "T1"
           /\ \E i \in 1..Len(last.ev) :
                 last.ev[i].op = "span_start" /\ last.ev[i].ctx = "T2"

\* C30: single execution -- in every call through class wrappers, @trace,
\* metric_counter and log_* wrappers, whatever the state of the telemetry
\* context, the original runs at most once, on the name and the arguments of
\* the caller, and it has run exactly once when the call returns.
C30_SingleExecution ==
    Called =>
        /\ OrigCalls <= 1
        /\ \A i \in Positions({"orig_call"}) :
              last.ev[i].args = last.args /\ last.ev[i].name = last.name
        /\ last.out.kind = "ret" => OrigCalls = 1

\* a call through a log_* wrapper whose sink raised and whose original
\* raised: the original ran once and its error reached the caller
C30_Witness ==
    /\ last.target = "function"
    /\ Len(fns) = 2
    /\ Outer.kind = "log"
    /\ Resolved = Ret("T1")
    /\ tele["T1"].logs = "raises"
    /\ Count(last.ev, LogLevels, {FALSE}) = 1
    /\ Expected.kind = "raise"
    /\ last.out = Expected
    /\ OrigCalls = 1

\* C27: start_span as a context manager -- each use yields one span object,
\* the tracer's span or a DummySpan when there is no tracer or the span
\* cannot be started, and an exception raised by the body of the with-block
\* reaches the caller as it is, never replaced by an error of the
\* instrumentation layer.
C27_StartSpanTransparent ==
    /\ use.n > 0 =>
          /\ Len(use.yielded) = 1
          /\ use.yielded[1] = (IF tm.tracer = "ok" THEN "span" ELSE DummySpan)
    /\ (use.n > 0 /\ use.pc = "idle") =>
          use.out = (IF use.body = "returns" THEN Ret("None")
                     ELSE Raise(BodyErr(use.body)))

\* C28: request guard of an instrumented app -- every request to a Flask or
\* FastAPI/Starlette app that instrument_app has hooked is described by a
\* descriptor with layer "http" and the request's path and method,
\* should_trace is evaluated on it against the telemetry context, span
\* creation is suppressed exactly when the answer is false, and the request
\* is passed on to the application in every case.
C28_RequestGuard ==
    (req.app # "none" /\ req.hooked) =>
        /\ req.ctx = http_descriptor(req.route, req.method)
        /\ req.evaluated
        /\ req.suppressed = ~req.decision
        /\ req.passed_on
====
